---- MODULE Spec2Model ----
(***************************************************************************)
(* State machine of the carrier endpoint multiplexer (src/src/endpoint.rs): *)
(* the Endpoint's channel map, the per-channel address mode, the pending    *)
(* connect sets and the poll loop.  The channel engine, the Noise handshake *)
(* and the stream handler tasks are external: the engine is the environment *)
(* that answers progress(), a handler task is an opaque coroutine whose     *)
(* poll answers Done or Again.                                              *)
(***************************************************************************)
EXTENDS Integers, Sequences, FiniteSets, TLC

\* ---------------------------------------------------------------- bounds
MaxRoute == 1
MaxAddr == 3
MaxStream == 2
MaxIdent == 2
MaxPaths == 2
MaxFrames == 2
MaxRecords == 2
MaxPayload == 2
MaxAcked == 2
MaxPieces == 2
MaxChunks == 2

Routes == 0..MaxRoute
Addrs == 1..MaxAddr
StreamIds == 1..MaxStream
Idents == 1..MaxIdent

\* ------------------------------------------------- proto::path::Category
Local == 0
Internet == 1
BrokerOrigin == 2
Categories == {Local, Internet, BrokerOrigin}

\* count at which a Discovering channel settles
SettleCount == 5

\* ------------------------------------------------------------ data shapes
None == {}
Some(x) == {x}
Unwrap(o) == CHOOSE x \in o : TRUE

EmptyMap == [x \in {} |-> 0]
Put(map, k, v) == [x \in DOMAIN map \cup {k} |-> IF x = k THEN v ELSE map[x]]
Remove(map, k) == [x \in DOMAIN map \ {k} |-> map[x]]
Without(map, ks) == [x \in DOMAIN map \ ks |-> map[x]]

\* every scan order of a hash map's keys
Orders(S) == {o \in [1..Cardinality(S) -> S] : \A i, j \in 1..Cardinality(S) : o[i] = o[j] => i = j}

\* AddressMode
Discovering(map) == [mode |-> "Discovering", chosen |-> 0, map |-> map]
Established(addr, map) == [mode |-> "Established", chosen |-> addr, map |-> map]

\* StreamReceiver: the handler task f ("publish": Endpoint::publish_stream,
\* "user": a task of the caller that takes the inbox content whenever it is
\* polled) and the single-slot inbox a; got counts the frames the engine has
\* produced for the stream, seen lists those the handler has read. phase is
\* where publish_stream stands: "created" (its body has not run, its defer
\* guard not yet made), "headers" (waiting in sync! for the response headers),
\* "parked" (at `yield poll.never()`, never resumed), "ending" (at
\* `yield poll.never()`, resumed by the next poll of the task)
Handler(task) ==
    [task |-> task, phase |-> "created", inbox |-> None, got |-> 0, seen |-> <<>>]

\* the task after its body has run to the first sync!. When the coroutine
\* runtime runs a body is not fixed by the source: at the call that creates the
\* task, or at the first poll of it
Started(h) == [h EXCEPT !.phase = "headers"]

\* the states Endpoint::open may leave a new task in
NewHandlers(task) == {Handler(task), Started(Handler(task))}

\* the defer guard of publish_stream is alive: dropping the task panics
\* ("publish closed")
Armed(h) == h.task = "publish" /\ h.phase # "created"

\* dropping these handlers panics
DropPanics(streams) == \E s \in DOMAIN streams : Armed(streams[s])

\* UdpChannel; used is the engine's set of stream ids in use on this channel
UdpChannel(identity, addrs, newhandl) ==
    [identity |-> identity, addrs |-> addrs, streams |-> EmptyMap,
     newhandl |-> newhandl, used |-> {}]

\* proto::Path lists a channel can be built from
Paths == [addr : Addrs, cat : Categories]
PathLists == UNION {[1..n -> Paths] : n \in 0..MaxPaths}

\* a category number that is none of the enum's
OtherCategory == 7

\* proto::Path lists as the broker relays them: also a path whose ipaddr does
\* not parse (addr 0) and one of a category outside the enum
RelayedPaths == Paths \cup {[addr |-> 0, cat |-> Local], [addr |-> 1, cat |-> OtherCategory]}
RelayedPathLists == UNION {[1..n -> RelayedPaths] : n \in 0..MaxPaths}

\* the loop over the relayed paths panics: unreachable!() for the category,
\* or the unwrap of ipaddr.parse()
PathsPanic(paths) ==
    \E n \in DOMAIN paths : paths[n].cat \notin Categories \/ paths[n].addr = 0

\* -------------------------------------------------------- inbound frames
\* a header block: undecodable, or headers with their :path
HeaderBlocks == {"garbage", "peer_connect", "other", "nopath"}

\* a handshake packet embedded in a connect message: pkt = FALSE when the outer
\* packet does not decode, id = 0 when the Noise step rejects it; ts is the
\* timestamp and route the route the handshake yields
NoHandshake == [pkt |-> FALSE, id |-> 0, ts |-> 0, route |-> 0]
Handshakes == {NoHandshake} \cup [pkt : {TRUE}, id : 0..MaxIdent, ts : 0..1, route : Routes]

\* A frame is told apart by what its consumer reads of it when it arrives.
Garbage == [kind |-> "garbage"]
HeadersFrame == [kind |-> "headers"]
\* the body of a /broker/connect stream decodes as a ConnectResponse; poll reads
\* nothing of it, accept_outgoing reads all of it (ConnectResponses)
CresFrame == [kind |-> "cres"]
\* the body of a /peer/connect stream decodes as a PeerConnectRequest: poll reads
\* the identity (0: the bytes are no identity), the timestamp and the handshake;
\* route and paths are read by accept_incomming alone (PeerConnectBodies)
PcrFrames == [kind : {"pcr"}, identity : 0..MaxIdent, timestamp : 0..1,
              hs : {h \in Handshakes : h.route = 0}]

\* proto::ConnectResponse as accept_outgoing reads it (a refusal carries no
\* handshake and no paths)
ConnectResponses ==
    {[ok |-> FALSE, route |-> 0, hs |-> NoHandshake, paths |-> <<>>]}
    \cup [ok : {TRUE}, route : Routes, hs : {h \in Handshakes : h.ts = 0},
          paths : RelayedPathLists]

\* route and paths of a proto::PeerConnectRequest as accept_incomming reads them
PeerConnectBodies == [route : Routes, paths : RelayedPathLists]

\* --------------------------------------------------------------- state
VARIABLES
    channels,                       \* Endpoint.channels
    broker_route,                   \* Endpoint.broker_route
    outstanding_connect_incomming,  \* Endpoint.outstanding_connect_incomming
    outstanding_connect_outgoing,   \* Endpoint.outstanding_connect_outgoing
    publish_secret,                 \* Endpoint.publish_secret.is_some()
    pc,                             \* "idle", "work" (inside poll), "aborted" (panicked)
    todo,                           \* channels the current pass has still to visit
    again,                          \* poll's again flag
    killme,                         \* poll's killme list
    event,                          \* the value the last poll returned, held by the caller
    last,                           \* the operation that led to this state, with its input
    sent,                           \* addresses the last step sent a datagram to
    calls,                          \* engine calls the last operation made
    closed,                         \* per stream, the close calls the last step made because its handler was Done
    reported,                       \* routes whose engine reported Disconnect in this poll
    progressed,                     \* some channel's progress result of the current pass was not Later
    boot,                           \* EndpointBuilder::connect: the bootstrap coroutine
    wire,                           \* a codec or framing function, its input and its output
    sub,                            \* SubscriberBuilder: the handler of the subscribe stream
    ran,                            \* code of the caller the last step ran, and whether an engine borrow was held
    held                            \* connect events poll has returned and the caller has not yet given to accept_* or reject

vars == <<channels, broker_route, outstanding_connect_incomming,
          outstanding_connect_outgoing, publish_secret, pc, todo, again, killme,
          event, last, sent, calls, closed, reported, progressed, boot, wire, sub, ran,
          held>>

NoEvent == [kind |-> "none"]
Op(op, route, stream, info) == [op |-> op, route |-> route, stream |-> stream, info |-> info]
Call(op, stream, msg) == [op |-> op, stream |-> stream, msg |-> msg]

\* the bootstrap coroutine after it returned Ok(endpoint); no function applied
BootReturned == [phase |-> "returned"]
NoWire == [fn |-> "none"]
NoSub == [phase |-> "none"]

\* Endpoint::new: the broker channel, Established at the bootstrap address
Init ==
    /\ broker_route = 0
    /\ channels = (0 :> UdpChannel(1, Established(MaxAddr, EmptyMap), FALSE))
    /\ outstanding_connect_incomming = {}
    /\ outstanding_connect_outgoing = EmptyMap
    /\ publish_secret = FALSE
    /\ pc = "idle"
    /\ todo = {}
    /\ again = FALSE
    /\ killme = <<>>
    /\ event = NoEvent
    /\ last = Op("new", 0, 0, "")
    /\ sent = {}
    /\ calls = <<>>
    /\ closed = EmptyMap
    /\ reported = {}
    /\ progressed = FALSE
    /\ boot = BootReturned
    /\ wire = NoWire
    /\ sub = NoSub
    /\ ran = {}
    /\ held = <<>>

\* ------------------------------------------------ path discovery, migration
\* a count that enters an unknown sender without counting its first datagram
CountRecvKnown(map, addr) ==
    IF addr \in DOMAIN map
    THEN [map EXCEPT ![addr].count = @ + 1]
    ELSE Put(map, addr, [cat |-> Internet, count |-> 0])

\* addrs.entry(addr).or_insert((Internet, 0)) and *count += 1
CountRecv(map, addr) ==
    IF addr \in DOMAIN map
    THEN [map EXCEPT ![addr].count = @ + 1]
    ELSE Put(map, addr, [cat |-> Internet, count |-> 1])

\* a scan that takes the first address it meets, whatever its count and category
SettleScanFirst(order, map, m, bestest) == Head(order)

\* the settle scan over the candidate map in the scan order `order`; m is the
\* address picked so far (0: none), bestest its category (-1: none)
RECURSIVE SettleScan(_, _, _, _)
SettleScan(order, map, m, bestest) ==
    IF order = <<>> THEN m
    ELSE LET a == Head(order)
             e == map[a]
         IN  IF e.count >= 1
             THEN IF bestest # -1
                  THEN IF bestest > e.cat
                       THEN SettleScan(Tail(order), map, a, e.cat)
                       ELSE SettleScan(Tail(order), map, m, bestest)
                  ELSE SettleScan(Tail(order), map, a, e.cat)
             ELSE SettleScan(Tail(order), map, m, bestest)

\* a threshold one higher than the code's
SettleReachedLate(count) == count > SettleCount

\* `if count >= 5`
SettleReached(count) == count >= SettleCount

\* the address mode after counting a datagram from addr (settle or not)
Settle(addrs, addr, order) ==
    IF addrs.mode = "Discovering"
    THEN LET map == CountRecv(addrs.map, addr)
         IN  IF SettleReached(map[addr].count)
             THEN Established(SettleScan(order, map, 0, -1), map)
             ELSE Discovering(map)
    ELSE addrs

\* previous.get(a).unwrap_or(&(Internet, 0)).0
CatOf(previous, a) == IF a \in DOMAIN previous THEN previous[a].cat ELSE Internet

\* a rule that refuses a move between addresses of equal category
ShouldMigrateStrict(current_cat, migrate_cat) == current_cat > migrate_cat

\* `if current_cat as i32 >= migrate_cat as i32`
ShouldMigrate(current_cat, migrate_cat) == current_cat >= migrate_cat

\* a migration step that also counts the datagram in the prior-candidate map
MigrateCounting(addrs, addr) ==
    IF addrs.mode = "Established" /\ addr # addrs.chosen
    THEN IF ShouldMigrate(CatOf(addrs.map, addrs.chosen), CatOf(addrs.map, addr))
         THEN [addrs EXCEPT !.chosen = addr, !.map = CountRecv(@, addr)]
         ELSE addrs
    ELSE addrs

\* the address mode after the engine accepted a datagram from addr
Migrate(addrs, addr) ==
    IF addrs.mode = "Established" /\ addr # addrs.chosen
    THEN IF ShouldMigrate(CatOf(addrs.map, addrs.chosen), CatOf(addrs.map, addr))
         THEN [addrs EXCEPT !.chosen = addr]
         ELSE addrs
    ELSE addrs

\* the receive step on one channel: settle, engine recv, migration
Receive(addrs, addr, order, recv) ==
    LET settled == Settle(addrs, addr, order)
    IN  IF recv = "Ok" THEN Migrate(settled, addr) ELSE settled

\* the scan orders the receive step may meet
ScanOrders(addrs, addr) ==
    IF addrs.mode = "Discovering" THEN Orders(DOMAIN addrs.map \cup {addr}) ELSE {<<>>}

\* a routing that keeps broadcasting after the channel settled
SendTargetsBroadcast(addrs) == (DOMAIN addrs.map \cup {addrs.chosen}) \ {0}

\* where a SendPacket of a channel goes
SendTargets(addrs) ==
    IF addrs.mode = "Discovering" THEN DOMAIN addrs.map ELSE {addrs.chosen}

\* the candidate map a new peer channel starts with
RECURSIVE PathsInsert(_, _)
PathsInsert(paths, map) ==
    IF paths = <<>> THEN map
    ELSE PathsInsert(Tail(paths),
                     Put(map, Head(paths).addr, [cat |-> Head(paths).cat, count |-> 0]))

\* a seeding that inserts the broker's address before the relayed paths
SeedPathsBrokerFirst(paths, chans, broker) ==
    IF broker \in DOMAIN chans /\ chans[broker].addrs.mode = "Established"
    THEN PathsInsert(paths, Put(EmptyMap, chans[broker].addrs.chosen,
                                [cat |-> BrokerOrigin, count |-> 0]))
    ELSE PathsInsert(paths, EmptyMap)

SeedPaths(paths, chans, broker) ==
    LET map == PathsInsert(paths, EmptyMap)
    IN  IF broker \in DOMAIN chans /\ chans[broker].addrs.mode = "Established"
        THEN Put(map, chans[broker].addrs.chosen, [cat |-> BrokerOrigin, count |-> 0])
        ELSE map

\* ------------------------------------------------- the engine's RefCell
\* a block that never drops its guard
ScopeLeaked(body) == <<"borrow">> \o body

\* `{ let mut chanchan = chan.chan.try_borrow_mut().expect(..); body }`: the
\* guard lives to the end of the block
Scope(body) == <<"borrow">> \o body \o <<"release">>

\* the engine calls of a step in program order, each in its block; the factory
\* (new.f) is called outside any block
RECURSIVE CallTrace(_)
CallTrace(cs) ==
    IF cs = <<>> THEN <<>>
    ELSE (IF Head(cs).op = "factory" THEN <<"factory">> ELSE Scope(<<"call">>))
         \o CallTrace(Tail(cs))

\* the shake and the poke: every handler of the streams S is polled, and the
\* stream of a handler that is Done (those in D) is closed in a block
RECURSIVE PollTrace(_, _)
PollTrace(S, D) ==
    IF S = {} THEN <<>>
    ELSE LET s == CHOOSE x \in S : \A y \in S : x <= y
         IN  <<"handler">> \o (IF s \in D THEN Scope(<<"call">>) ELSE <<>>)
             \o PollTrace(S \ {s}, D)

\* the caller code a trace runs, each with whether a guard on the engine is
\* alive at that point (a Stream::send in that code then panics)
RECURSIVE RanFrom(_, _)
RanFrom(trace, guard) ==
    IF trace = <<>> THEN {}
    ELSE LET e == Head(trace)
         IN  IF e = "borrow" THEN RanFrom(Tail(trace), TRUE)
             ELSE IF e = "release" THEN RanFrom(Tail(trace), FALSE)
             ELSE IF e = "call" THEN RanFrom(Tail(trace), guard)
             ELSE {[code |-> e, held |-> guard]} \cup RanFrom(Tail(trace), guard)

\* Endpoint::open: the stream is opened in a block, then the closure f is called
OpenTrace == Scope(<<"call">>) \o <<"closure">>

\* ------------------------------------------------------ the caller's API
\* the id the engine gives the next stream of a channel, opened here or by the
\* peer: one not in use (ids are only ever compared, so the lowest stands for any)
FreshIds(chan) ==
    LET free == StreamIds \ chan.used
    IN  {s \in free : \A t \in free : s <= t}

\* what an API call leaves alone
ApiFrame == UNCHANGED <<broker_route, pc, todo, again, killme, reported, progressed, boot, wire, sub>>

\* a panic (unwrap, expect, panic!, unreachable!) ends the process
Panic(op) ==
    /\ pc' = "aborted"
    /\ last' = op
    /\ event' = NoEvent
    /\ sent' = {}
    /\ calls' = <<>>
    /\ closed' = EmptyMap
    /\ ran' = {}
    /\ UNCHANGED <<broker_route, todo, again, killme, reported, progressed, boot, wire, sub>>

\* a sequence without its n-th element
RemoveAt(seq, n) == SubSeq(seq, 1, n - 1) \o SubSeq(seq, n + 1, Len(seq))

\* Endpoint::open, called by the caller for a route of its choice with a
\* closure that returns a task of the caller
Open ==
    /\ pc = "idle"
    /\ UNCHANGED <<outstanding_connect_incomming, outstanding_connect_outgoing,
                   publish_secret, held>>
    /\ \E route \in Routes :
         IF route \notin DOMAIN channels
         THEN Panic(Op("open", route, 0, "")) /\ UNCHANGED channels
         ELSE \E s \in FreshIds(channels[route]) :
                /\ channels' = [channels EXCEPT ![route].used = @ \cup {s},
                                                ![route].streams = Put(@, s, Handler("user"))]
                /\ calls' = <<Call("open", s, "/user")>>
                /\ ran' = RanFrom(OpenTrace, FALSE)
                /\ last' = Op("open", route, s, "")
                /\ event' = NoEvent
                /\ sent' = {}
                /\ closed' = EmptyMap
                /\ ApiFrame

\* Endpoint::stream, called by the caller for a route and a stream of its choice
Stream ==
    /\ pc = "idle"
    /\ UNCHANGED <<channels, outstanding_connect_incomming, outstanding_connect_outgoing,
                   publish_secret, held>>
    /\ \E route \in Routes, s \in StreamIds :
         IF route \notin DOMAIN channels
         THEN Panic(Op("stream", route, s, ""))
         ELSE /\ calls' = <<Call("stream", s, "user")>>
              /\ ran' = {}
              /\ last' = Op("stream", route, s, "")
              /\ event' = NoEvent
              /\ sent' = {}
              /\ closed' = EmptyMap
              /\ ApiFrame

\* Endpoint::publish, with the Endpoint::open it calls
Publish ==
    /\ pc = "idle"
    /\ publish_secret' = TRUE
    /\ UNCHANGED <<outstanding_connect_incomming, outstanding_connect_outgoing, held>>
    /\ IF broker_route \notin DOMAIN channels
       THEN Panic(Op("publish", broker_route, 0, "")) /\ UNCHANGED channels
       ELSE \E s \in FreshIds(channels[broker_route]), new \in NewHandlers("publish") :
              /\ channels' = [channels EXCEPT ![broker_route].used = @ \cup {s},
                                              ![broker_route].streams = Put(@, s, new)]
              /\ calls' = <<Call("open", s, "/broker/publish"), Call("stream", s, "PublishRequest")>>
              /\ ran' = RanFrom(OpenTrace, FALSE)
              /\ last' = Op("publish", broker_route, s, "")
              /\ event' = NoEvent
              /\ sent' = {}
              /\ closed' = EmptyMap
              /\ ApiFrame

\* Endpoint::connect. noise::initiate may fail: connect then returns Err with
\* nothing opened (the operation is recorded with stream 0 and no call)
Connect ==
    /\ pc = "idle"
    /\ UNCHANGED <<outstanding_connect_incomming, publish_secret, held>>
    /\ \E target \in Idents, initiated \in BOOLEAN :
         IF ~initiated
         THEN /\ calls' = <<>>
              /\ ran' = {}
              /\ last' = Op("connect", broker_route, 0, target)
              /\ event' = NoEvent
              /\ sent' = {}
              /\ closed' = EmptyMap
              /\ ApiFrame
              /\ UNCHANGED <<channels, outstanding_connect_outgoing>>
         ELSE IF broker_route \notin DOMAIN channels
         THEN Panic(Op("connect", broker_route, 0, target))
              /\ UNCHANGED <<channels, outstanding_connect_outgoing>>
         ELSE \E s \in FreshIds(channels[broker_route]) :
                /\ channels' = [channels EXCEPT ![broker_route].used = @ \cup {s}]
                /\ outstanding_connect_outgoing' =
                       Put(outstanding_connect_outgoing, s,
                           [stage |-> "WaitingForHeaders", identity |-> target])
                /\ calls' = <<Call("open", s, "/broker/connect"), Call("stream", s, "ConnectRequest")>>
                /\ ran' = {}
                /\ last' = Op("connect", broker_route, s, target)
                /\ event' = NoEvent
                /\ sent' = {}
                /\ closed' = EmptyMap
                /\ ApiFrame

\* Endpoint::stream as the last statement of reject and accept_incomming
StreamOnBroker(chans, op, qstream, msg) ==
    IF broker_route \notin DOMAIN chans
    THEN Panic(op)
    ELSE /\ calls' = <<Call("stream", qstream, msg)>>
         /\ ran' = {}
         /\ last' = op
         /\ event' = NoEvent
         /\ sent' = {}
         /\ closed' = EmptyMap
         /\ ApiFrame

\* Endpoint::reject, with a ConnectRequest the caller holds
Reject ==
    /\ pc = "idle"
    /\ UNCHANGED <<channels, outstanding_connect_incomming, outstanding_connect_outgoing,
                   publish_secret>>
    /\ \E n \in DOMAIN held :
         /\ held[n].kind = "IncommingConnect"
         /\ held' = RemoveAt(held, n)
         /\ StreamOnBroker(channels, Op("reject", broker_route, held[n].q.qstream, ""),
                           held[n].q.qstream, "PeerConnectResponse{ok:false}")

\* Endpoint::accept_incomming, with a ConnectRequest the caller holds; responded
\* is whether responder.send_response succeeds
AcceptIncomming ==
    /\ pc = "idle"
    /\ \E n \in DOMAIN held : \E cr \in PeerConnectBodies : \E responded \in BOOLEAN :
       LET q == held[n].q
           op == Op("accept_incomming", cr.route, q.qstream,
                    [identity |-> q.identity, paths |-> cr.paths])
           paths == SeedPaths(cr.paths, channels, broker_route)
           chans == Put(channels, cr.route, UdpChannel(q.identity, Discovering(paths), TRUE))
       IN  /\ held[n].kind = "IncommingConnect"
           /\ held' = RemoveAt(held, n)
           /\ IF ~responded \/ PathsPanic(cr.paths)
              THEN Panic(op) /\ UNCHANGED channels
              ELSE IF cr.route \in DOMAIN channels /\ DropPanics(channels[cr.route].streams)
              THEN Panic(op) /\ channels' = chans
              ELSE channels' = chans
                   /\ StreamOnBroker(chans, op, q.qstream, "PeerConnectResponse{ok:true}")
    /\ UNCHANGED <<outstanding_connect_incomming, outstanding_connect_outgoing, publish_secret>>

\* accept_outgoing without the comparison of the two identities
AcceptOutgoingResultAnyIdentity(q, cr, transport) ==
    IF q.cr = None \/ ~q.requester THEN "OutgoingConnectFailed"
    ELSE IF ~cr.ok THEN "OutgoingConnectFailed"
    ELSE IF ~cr.hs.pkt THEN "Err"
    ELSE IF cr.hs.id = 0 THEN "panic"
    ELSE IF ~transport THEN "Err"
    ELSE IF cr.route # cr.hs.route THEN "panic"
    ELSE IF PathsPanic(cr.paths) THEN "panic"
    ELSE "Ok"

\* accept_outgoing without the test of cr.ok
AcceptOutgoingResultAnyOk(q, cr, transport) ==
    IF q.cr = None \/ ~q.requester THEN "OutgoingConnectFailed"
    ELSE IF ~cr.hs.pkt THEN "Err"
    ELSE IF cr.hs.id = 0 THEN "panic"
    ELSE IF ~transport THEN "Err"
    ELSE IF q.identity # cr.hs.id THEN "panic"
    ELSE IF cr.route # cr.hs.route THEN "panic"
    ELSE IF PathsPanic(cr.paths) THEN "panic"
    ELSE "Ok"

\* the outcome of accept_outgoing before it builds the channel; cr is the
\* ConnectResponse the event carries when q.cr is Some, transport is whether
\* requester.into_transport succeeds
AcceptOutgoingResult(q, cr, transport) ==
    IF q.cr = None \/ ~q.requester THEN "OutgoingConnectFailed"
    ELSE IF ~cr.ok THEN "OutgoingConnectFailed"
    ELSE IF ~cr.hs.pkt THEN "Err"
    ELSE IF cr.hs.id = 0 THEN "panic"
    ELSE IF ~transport THEN "Err"
    ELSE IF q.identity # cr.hs.id THEN "panic"
    ELSE IF cr.route # cr.hs.route THEN "panic"
    ELSE IF PathsPanic(cr.paths) THEN "panic"
    ELSE "Ok"

\* what accept_outgoing was called with and what it returned
AcceptInfo(q, cr, transport, res) ==
    [res |-> res, identity |-> q.identity, transport |-> transport,
     cr |-> IF q.cr = None THEN None ELSE Some(cr)]

\* Endpoint::accept_outgoing, with a ConnectResponse the caller holds. A
\* channel stored under cr.route is dropped by the insert; dropping an armed
\* publish_stream panics
AcceptOutgoing ==
    /\ pc = "idle"
    /\ UNCHANGED <<outstanding_connect_incomming, outstanding_connect_outgoing, publish_secret>>
    /\ \E n \in DOMAIN held : \E cr \in ConnectResponses : \E transport \in BOOLEAN :
       LET q == held[n].q
           res == AcceptOutgoingResult(q, cr, transport)
           paths == SeedPaths(cr.paths, channels, broker_route)
           chans == Put(channels, cr.route, UdpChannel(q.identity, Discovering(paths), TRUE))
       IN  /\ held[n].kind = "OutgoingConnect"
           /\ held' = RemoveAt(held, n)
           /\ IF res = "panic"
              THEN Panic(Op("accept_outgoing", cr.route, 0, AcceptInfo(q, cr, transport, res)))
                   /\ UNCHANGED channels
              ELSE IF res = "Ok" /\ cr.route \in DOMAIN channels
                      /\ DropPanics(channels[cr.route].streams)
              THEN Panic(Op("accept_outgoing", cr.route, 0, AcceptInfo(q, cr, transport, "panic")))
                   /\ channels' = chans
              ELSE /\ IF res = "Ok" THEN channels' = chans ELSE UNCHANGED channels
                   /\ last' = Op("accept_outgoing", cr.route, 0, AcceptInfo(q, cr, transport, res))
                   /\ event' = NoEvent
                   /\ sent' = {}
                   /\ calls' = <<>>
                   /\ ran' = {}
                   /\ closed' = EmptyMap
                   /\ ApiFrame

\* ------------------------------------------------------------ Endpoint::poll
\* what socket.recv_from hands to poll: nothing, an error, or a datagram from addr
\* that decodes (or not) as an outer packet for route, and that the engine of the
\* channel accepts (Ok) or rejects (AntiReplay, Error)
Datagrams ==
    {[kind |-> "WouldBlock"], [kind |-> "IoError"]}
    \cup [kind : {"Undecodable"}, addr : Addrs]
    \cup [kind : {"Packet"}, addr : Addrs, route : Routes, recv : {"Ok", "AntiReplay", "Error"}]

\* a lookup that hands a packet for an unknown route to the broker channel
RecvRouteOrBroker(chans, dg) ==
    IF dg.kind # "Packet" THEN None
    ELSE IF dg.route \in DOMAIN chans THEN Some(dg.route)
    ELSE IF broker_route \in DOMAIN chans THEN Some(broker_route)
    ELSE None

\* EncryptedPacket::decode and self.channels.get_mut(&pkt.route): the route of
\* the channel the datagram is for, if it decodes and the channel exists
RecvRoute(chans, dg) ==
    IF dg.kind = "Packet" /\ dg.route \in DOMAIN chans THEN Some(dg.route) ELSE None

\* the first part of poll: receive one packet
PollRecv ==
    /\ pc = "idle"
    /\ \E dg \in Datagrams :
         /\ last' = Op("recv", IF dg.kind = "Packet" THEN dg.route ELSE -1, 0, dg)
         /\ IF dg.kind = "IoError"
            THEN /\ pc' = "idle"
                 /\ event' = [kind |-> "Err", err |-> "Io"]
                 /\ todo' = {}
                 /\ UNCHANGED channels
            ELSE /\ pc' = "work"
                 /\ event' = NoEvent
                 /\ todo' = DOMAIN channels
                 /\ IF RecvRoute(channels, dg) # None
                    THEN LET route == Unwrap(RecvRoute(channels, dg))
                         IN  \E order \in ScanOrders(channels[route].addrs, dg.addr) :
                               channels' = [channels EXCEPT ![route].addrs =
                                                Receive(@, dg.addr, order, dg.recv)]
                    ELSE UNCHANGED channels
    /\ again' = FALSE
    /\ killme' = <<>>
    /\ reported' = {}
    /\ progressed' = FALSE
    /\ ran' = {}
    /\ UNCHANGED <<boot, wire, sub, held>>
    /\ sent' = {}
    /\ calls' = <<>>
    /\ closed' = EmptyMap
    /\ UNCHANGED <<broker_route, outstanding_connect_incomming,
                   outstanding_connect_outgoing, publish_secret>>

\* what handling one progress result yields
Result(chan, inc, out, ag, kill, ret, cs, snt) ==
    [chan |-> chan, inc |-> inc, out |-> out, again |-> ag, kill |-> kill,
     ret |-> ret, calls |-> cs, sent |-> snt]

\* ChannelProgress::Later
OnLater(chan, inc, out) == Result(chan, inc, out, FALSE, FALSE, NoEvent, <<>>, {})

\* a SendPacket arm that leaves the again flag alone
OnSendPacketOnce(chan, inc, out) ==
    Result(chan, inc, out, FALSE, FALSE, NoEvent, <<>>, SendTargets(chan.addrs))

\* ChannelProgress::SendPacket
OnSendPacket(chan, inc, out) ==
    Result(chan, inc, out, TRUE, FALSE, NoEvent, <<>>, SendTargets(chan.addrs))

\* a test that takes a header block without :path for a connect request
IsPeerConnectLax(hdr) == hdr # "other"

\* the broker channel's test of a peer-opened stream's :path
IsPeerConnect(hdr) == hdr = "peer_connect"

\* a factory branch that leaves the stream open when no handler is returned
OnFactoryNoClose(chan, inc, out, s, fac) ==
    IF fac
    THEN Result([chan EXCEPT !.streams = Put(@, s, Handler("user"))], inc, out, TRUE, FALSE,
                NoEvent, <<Call("factory", s, "Some")>>, {})
    ELSE Result(chan, inc, out, TRUE, FALSE, NoEvent, <<Call("factory", s, "None")>>, {})

\* `new.f(headers, stream)`: the factory is called; its handler is registered,
\* or the stream is closed when it returns none
OnFactory(chan, inc, out, s, fac) ==
    IF fac
    THEN Result([chan EXCEPT !.streams = Put(@, s, Handler("user"))], inc, out, TRUE, FALSE,
                NoEvent, <<Call("factory", s, "Some")>>, {})
    ELSE Result(chan, inc, out, TRUE, FALSE, NoEvent,
                <<Call("factory", s, "None"), Call("close", s, "")>>, {})

\* ChannelProgress::ReceiveHeader(s, frame); fac: the factory returned a handler
OnReceiveHeader(route, chan, inc, out, s, hdr, fac) ==
    IF hdr = "garbage"
    THEN Result(chan, inc, out, FALSE, FALSE, [kind |-> "Err", err |-> "Headers"], <<>>, {})
    ELSE IF route = broker_route
    THEN IF IsPeerConnect(hdr)
         THEN Result(chan, inc \cup {s}, out, TRUE, FALSE, NoEvent,
                     <<Call("stream", s, "Headers::ok")>>, {})
         ELSE Result(chan, inc, out, TRUE, FALSE, NoEvent,
                     <<Call("stream", s, "Headers::404")>>, {})
    ELSE IF chan.newhandl
    THEN OnFactory(chan, inc, out, s, fac)
    ELSE Result(chan, inc, out, TRUE, FALSE, NoEvent, <<>>, {})

\* Endpoint::peer_connect_request
peer_connect_request(qstream, frame) ==
    IF frame.kind # "pcr" THEN [ok |-> FALSE, err |-> "Decode"]
    ELSE IF frame.identity = 0 THEN [ok |-> FALSE, err |-> "Identity"]
    ELSE IF ~frame.hs.pkt THEN [ok |-> FALSE, err |-> "Packet"]
    ELSE IF frame.hs.id = 0 THEN [ok |-> FALSE, err |-> "Noise"]
    ELSE IF frame.hs.id # frame.identity \/ frame.hs.ts # frame.timestamp
    THEN [ok |-> FALSE, err |-> "SecurityViolation"]
    ELSE [ok |-> TRUE, q |-> [qstream |-> qstream, identity |-> frame.identity]]

\* the first condition of the ReceiveStream match: an incoming-pending stream of
\* the broker channel (the set's remove runs whenever the route is the broker's)
IncomingBranch(route, inc, s, secret) == route = broker_route /\ s \in inc /\ secret

\* an outgoing-pending branch that leaves the entry in the map when it returns
\* the response
OnOutgoingFrameKeep(chan, inc, out, s, frame) ==
    IF out[s].stage = "WaitingForHeaders"
    THEN IF frame.kind # "headers"
         THEN Result(chan, inc, Remove(out, s), FALSE, FALSE, [kind |-> "panic"], <<>>, {})
         ELSE Result(chan, inc, [out EXCEPT ![s].stage = "WaitingForResponse"], TRUE, FALSE,
                     NoEvent, <<>>, {})
    ELSE IF frame.kind # "cres"
         THEN Result(chan, inc, Remove(out, s), FALSE, FALSE, [kind |-> "panic"], <<>>, {})
         ELSE Result(chan, inc, out, FALSE, FALSE,
                     [kind |-> "OutgoingConnect",
                      q |-> [identity |-> out[s].identity, cr |-> Some("ConnectResponse"),
                             requester |-> TRUE]],
                     <<Call("close", s, "")>>, {})

\* an outgoing-pending stream at stage `stage` receives a frame
OnOutgoingFrame(chan, inc, out, s, frame) ==
    IF out[s].stage = "WaitingForHeaders"
    THEN IF frame.kind # "headers"
         THEN Result(chan, inc, Remove(out, s), FALSE, FALSE, [kind |-> "panic"], <<>>, {})
         ELSE Result(chan, inc, [out EXCEPT ![s].stage = "WaitingForResponse"], TRUE, FALSE,
                     NoEvent, <<>>, {})
    ELSE IF frame.kind # "cres"
         THEN Result(chan, inc, Remove(out, s), FALSE, FALSE, [kind |-> "panic"], <<>>, {})
         ELSE Result(chan, inc, Remove(out, s), FALSE, FALSE,
                     [kind |-> "OutgoingConnect",
                      q |-> [identity |-> out[s].identity, cr |-> Some("ConnectResponse"),
                             requester |-> TRUE]],
                     <<Call("close", s, "")>>, {})

\* a delivery that loses the frame
DeliverLost(chan, s, frame) ==
    IF s \in DOMAIN chan.streams /\ frame.kind = "data"
    THEN [chan EXCEPT !.streams[s].got = frame.n]
    ELSE chan

\* `driver.a.set(Done(frame))`: the frame replaces the content of the inbox of
\* the stream's handler, if one is registered
Deliver(chan, s, frame) ==
    IF s \in DOMAIN chan.streams /\ frame.kind = "data"
    THEN [chan EXCEPT !.streams[s].inbox = Some(frame.n), !.streams[s].got = frame.n]
    ELSE IF s \in DOMAIN chan.streams /\ chan.streams[s].task = "publish"
    THEN [chan EXCEPT !.streams[s].inbox = Some(frame.kind)]
    ELSE chan

\* ChannelProgress::ReceiveStream(s, frame)
OnReceiveStream(route, chan, inc, out, secret, s, frame) ==
    LET inc1 == IF route = broker_route THEN inc \ {s} ELSE inc
    IN  IF IncomingBranch(route, inc, s, secret)
        THEN LET r == peer_connect_request(s, frame)
             IN  IF r.ok
                 THEN Result(chan, inc1, out, FALSE, FALSE,
                             [kind |-> "IncommingConnect", q |-> r.q], <<>>, {})
                 ELSE Result(chan, inc1, out, TRUE, FALSE, NoEvent,
                             <<Call("stream", s, "PeerConnectResponse{ok:false}"),
                               Call("close", s, "")>>, {})
        ELSE IF route = broker_route /\ s \in DOMAIN out
        THEN OnOutgoingFrame(chan, inc1, out, s, frame)
        ELSE Result(Deliver(chan, s, frame), inc1, out, TRUE, FALSE, NoEvent, <<>>, {})

\* a Close that fails a pending connect only before the response headers came
CloseFailsConnectEarly(route, out, s) ==
    route = broker_route /\ s \in DOMAIN out /\ out[s].stage = "WaitingForHeaders"

\* whether a Close of stream s fails a pending outgoing connect
CloseFailsConnect(route, out, s) == route = broker_route /\ s \in DOMAIN out

\* ChannelProgress::Close(s)
OnClose(route, chan, inc, out, s) ==
    LET c == [chan EXCEPT !.streams = Remove(@, s)]
    IN  IF s \in DOMAIN chan.streams /\ Armed(chan.streams[s])
        THEN Result(c, inc, out, TRUE, FALSE, [kind |-> "panic"], <<>>, {})
        ELSE IF CloseFailsConnect(route, out, s)
        THEN Result(c, inc, Remove(out, s), TRUE, FALSE,
                    [kind |-> "OutgoingConnect",
                     q |-> [identity |-> out[s].identity, cr |-> None, requester |-> FALSE]],
                    <<>>, {})
        ELSE Result(c, inc, out, TRUE, FALSE, NoEvent, <<>>, {})

\* ChannelProgress::Disconnect
OnDisconnect(chan, inc, out) == Result(chan, inc, out, FALSE, TRUE, NoEvent, <<>>, {})

\* progress() itself returned an error
OnProgressErr(chan, inc, out) ==
    Result(chan, inc, out, FALSE, FALSE, [kind |-> "Err", err |-> "Progress"], <<>>, {})

\* handlers whose poll may answer Done
UserStreams(chan) == {s \in DOMAIN chan.streams : chan.streams[s].task = "user"}

\* a poll of publish_stream panics: it is resumed with a frame in its inbox
\* that is not the response headers it waits for (the unwrap of Headers::decode
\* fails, or the task runs on from `yield poll.never()` to its end and drops
\* its guard), or it is resumed from `yield poll.never()` without a frame
HandlerPanics(h) ==
    /\ h.task = "publish"
    /\ \/ h.phase = "ending"
       \/ /\ h.inbox # None
          /\ ~(h.phase \in {"created", "headers"} /\ Unwrap(h.inbox) = "headers")

\* some handler of the channel panics when it is polled
PollPanics(chan) == \E s \in DOMAIN chan.streams : HandlerPanics(chan.streams[s])

\* the channel the polls leave. Whether the runtime resumes a task at every
\* poll or only when it was woken is not fixed by the source: a task that has
\* just reached `yield poll.never()` either stays there for good or is resumed
\* by the next poll of it, runs to its end and drops its guard
Parked(before, after) ==
    {after} \cup
    IF \E s \in DOMAIN after.streams :
          /\ after.streams[s].task = "publish"
          /\ after.streams[s].phase = "parked"
          /\ before.streams[s].phase # "parked"
    THEN {[after EXCEPT !.streams =
              [s \in DOMAIN @ |->
                 IF @[s].task = "publish" /\ @[s].phase = "parked"
                    /\ before.streams[s].phase # "parked"
                 THEN [@[s] EXCEPT !.phase = "ending"] ELSE @[s]]]}
    ELSE {}

\* a poll of the handler. A task of the caller takes the content of the inbox
\* (impl Future for Stream); publish_stream runs to its sync! on the first
\* poll and from there to `yield poll.never()` when the response headers are
\* in its inbox
Take(h) ==
    IF h.task = "user"
    THEN IF h.inbox # None
         THEN [h EXCEPT !.seen = Append(@, Unwrap(h.inbox)), !.inbox = None]
         ELSE h
    ELSE IF h.inbox # None
    THEN [h EXCEPT !.phase = "parked", !.inbox = None]
    ELSE IF h.phase = "created" THEN [h EXCEPT !.phase = "headers"]
    ELSE h

\* the channel a panicking round of polls leaves: the handlers in P were polled
\* before the one that panics (the keys are scanned in the hash map's order),
\* those of them in D answered Done and were removed, then publish_stream p
\* was resumed. At its sync! it takes the frame out of the inbox (Stream::poll
\* replaces it) before the unwrap of Headers::decode panics; resumed from
\* `yield poll.never()` it reads no inbox
PanicPolled(chan, p, P, D) ==
    [chan EXCEPT !.streams =
        Without([s \in DOMAIN @ |->
                    IF s = p
                    THEN IF @[s].phase \in {"created", "headers"}
                         THEN [@[s] EXCEPT !.phase = "headers", !.inbox = None]
                         ELSE @[s]
                    ELSE IF s \in P THEN Take(@[s]) ELSE @[s]], D)]

\* a shake that keeps the handlers that are Done
ShakenKept(chan, D) == [chan EXCEPT !.streams = [s \in DOMAIN @ |-> Take(@[s])]]

\* the channel after every handler was polled and those in D answered Done
Shaken(chan, D) ==
    [chan EXCEPT !.streams = Without([s \in DOMAIN @ |-> Take(@[s])], D)]

\* per stream, the close calls made for the handlers Done in the shake (D1)
\* and in the poke (D2)
CloseCounts(D1, D2) ==
    [s \in D1 \cup D2 |-> (IF s \in D1 THEN 1 ELSE 0) + (IF s \in D2 THEN 1 ELSE 0)]

\* one channel's turn up to the handling of the progress result: the shake, the
\* block around progress(), and the calls of the arm
TurnTrace(chan, D1, cs) ==
    PollTrace(DOMAIN chan.streams, D1) \o Scope(<<"call">>) \o CallTrace(cs)

\* the shake of a channel's turn panics in publish_stream, before progress()
\* is called; the handlers in P were polled before it, those in D1 are Done
StepShakePanic ==
    /\ pc = "work"
    /\ \E route \in todo : \E p \in DOMAIN channels[route].streams :
       \E P \in SUBSET {s \in DOMAIN channels[route].streams :
                           ~HandlerPanics(channels[route].streams[s])} :
       \E D1 \in SUBSET (P \cap UserStreams(channels[route])) :
         /\ HandlerPanics(channels[route].streams[p])
         /\ last' = Op("shake", route, 0, "")
         /\ channels' = [channels EXCEPT ![route] = PanicPolled(@, p, P, D1)]
         /\ closed' = CloseCounts(D1, {})
         /\ ran' = RanFrom(PollTrace(DOMAIN channels[route].streams, D1), FALSE)
    /\ pc' = "aborted"
    /\ event' = NoEvent
    /\ sent' = {}
    /\ calls' = <<>>
    /\ UNCHANGED <<broker_route, outstanding_connect_incomming, outstanding_connect_outgoing,
                   publish_secret, todo, again, killme, reported, progressed, boot, wire, sub,
                   held>>

\* one channel's turn in a pass: the handlers in D1 are Done when shaken, the
\* engine answers progress() with the result h was computed from (on the channel
\* c1 left by the shake), then, unless poll returned, the handlers are poked
Turn(route, op, c1, D1, h) ==
    /\ ~PollPanics(channels[route])
    /\ last' = op
    /\ outstanding_connect_incomming' = h.inc
    /\ outstanding_connect_outgoing' = h.out
    /\ sent' = h.sent
    /\ calls' = h.calls
    /\ IF h.ret.kind = "panic"
       THEN /\ pc' = "aborted"
            /\ event' = NoEvent
            /\ channels' = [channels EXCEPT ![route] = h.chan]
            /\ closed' = CloseCounts(D1, {})
            /\ ran' = RanFrom(TurnTrace(channels[route], D1, h.calls), FALSE)
            /\ UNCHANGED <<todo, again, killme, reported, progressed, held>>
       ELSE IF h.ret.kind # "none"
       THEN /\ pc' = "idle"
            /\ event' = h.ret
            /\ channels' = [channels EXCEPT ![route] = h.chan]
            /\ closed' = CloseCounts(D1, {})
            /\ ran' = RanFrom(TurnTrace(channels[route], D1, h.calls), FALSE)
            /\ todo' = {}
            /\ again' = FALSE
            /\ killme' = <<>>
            /\ progressed' = FALSE
            /\ held' = IF h.ret.kind \in {"IncommingConnect", "OutgoingConnect"}
                       THEN Append(held, h.ret) ELSE held
            /\ UNCHANGED reported
       ELSE IF PollPanics(h.chan)
       THEN /\ pc' = "aborted"
            /\ event' = NoEvent
            /\ \E p \in DOMAIN h.chan.streams :
               \E P \in SUBSET {s \in DOMAIN h.chan.streams : ~HandlerPanics(h.chan.streams[s])} :
               \E D2 \in SUBSET (P \cap UserStreams(h.chan)) :
                 /\ HandlerPanics(h.chan.streams[p])
                 /\ channels' = [channels EXCEPT ![route] = PanicPolled(h.chan, p, P, D2)]
                 /\ closed' = CloseCounts(D1, D2)
            /\ ran' = RanFrom(TurnTrace(channels[route], D1, h.calls) \o <<"handler">>, FALSE)
            /\ UNCHANGED <<todo, again, killme, reported, progressed, held>>
       ELSE \E D2 \in SUBSET UserStreams(h.chan) :
            \E c2 \in Parked(h.chan, Shaken(h.chan, D2)) :
            /\ pc' = "work"
            /\ event' = NoEvent
            /\ channels' = [channels EXCEPT ![route] = c2]
            /\ closed' = CloseCounts(D1, D2)
            /\ ran' = RanFrom(TurnTrace(channels[route], D1, h.calls)
                              \o PollTrace(DOMAIN h.chan.streams, D2), FALSE)
            /\ todo' = todo \ {route}
            /\ again' = (again \/ h.again)
            /\ killme' = IF h.kill THEN Append(killme, route) ELSE killme
            /\ reported' = IF h.kill THEN reported \cup {route} ELSE reported
            /\ progressed' = (progressed \/ op.op # "Later")
            /\ UNCHANGED held
    /\ UNCHANGED <<broker_route, publish_secret, boot, wire, sub>>


StepLater ==
    /\ pc = "work"
    /\ \E route \in todo : \E D1 \in SUBSET UserStreams(channels[route]) :
         LET c1 == Shaken(channels[route], D1)
         IN  Turn(route, Op("Later", route, 0, ""), c1, D1,
                  OnLater(c1, outstanding_connect_incomming, outstanding_connect_outgoing))

StepSendPacket ==
    /\ pc = "work"
    /\ \E route \in todo : \E D1 \in SUBSET UserStreams(channels[route]) :
         LET c1 == Shaken(channels[route], D1)
         IN  Turn(route, Op("SendPacket", route, 0, ""), c1, D1,
                  OnSendPacket(c1, outstanding_connect_incomming, outstanding_connect_outgoing))

\* the peer opens a stream: the engine reports its header block under a fresh id
StepReceiveHeader ==
    /\ pc = "work"
    /\ \E route \in todo : \E D1 \in SUBSET UserStreams(channels[route]) :
       \E s \in FreshIds(channels[route]) : \E hdr \in HeaderBlocks : \E fac \in BOOLEAN :
         LET c1 == [Shaken(channels[route], D1) EXCEPT !.used = @ \cup {s}]
         IN  Turn(route, Op("ReceiveHeader", route, s, hdr), c1, D1,
                  OnReceiveHeader(route, c1, outstanding_connect_incomming,
                                  outstanding_connect_outgoing, s, hdr, fac))

\* the frames worth telling apart on stream s of the channel at route: what its
\* consumer decodes them as, and bytes that do not decode
FramesFor(route, s) ==
    IF route = broker_route /\ s \in outstanding_connect_incomming
    THEN {Garbage} \cup PcrFrames
    ELSE IF route = broker_route /\ s \in DOMAIN outstanding_connect_outgoing
    THEN {Garbage, HeadersFrame, CresFrame}
    ELSE IF s \in DOMAIN channels[route].streams /\ channels[route].streams[s].task = "publish"
    THEN {Garbage, HeadersFrame}
    ELSE IF s \in UserStreams(channels[route])
    THEN IF channels[route].streams[s].got < MaxFrames
         THEN {[kind |-> "data", n |-> channels[route].streams[s].got + 1]}
         ELSE {}
    ELSE {Garbage}

\* what a frame is, as far as the claims tell frames apart
FrameClass(frame) ==
    IF frame.kind = "pcr"
    THEN [kind |-> "pcr", valid |-> peer_connect_request(0, frame).ok,
          mismatch |-> (frame.identity # 0 /\ frame.hs.pkt /\ frame.hs.id # 0
                        /\ (frame.hs.id # frame.identity \/ frame.hs.ts # frame.timestamp))]
    ELSE [kind |-> frame.kind, valid |-> TRUE, mismatch |-> FALSE]

StepReceiveStream ==
    /\ pc = "work"
    /\ \E route \in todo : \E D1 \in SUBSET UserStreams(channels[route]) :
       \E s \in channels[route].used : \E frame \in FramesFor(route, s) :
         LET c1 == Shaken(channels[route], D1)
         IN  Turn(route, Op("ReceiveStream", route, s, FrameClass(frame)), c1, D1,
                  OnReceiveStream(route, c1, outstanding_connect_incomming,
                                  outstanding_connect_outgoing, publish_secret, s, frame))

StepClose ==
    /\ pc = "work"
    /\ \E route \in todo : \E D1 \in SUBSET UserStreams(channels[route]) :
       \E s \in channels[route].used :
         LET c1 == Shaken(channels[route], D1)
         IN  Turn(route, Op("Close", route, s, ""), c1, D1,
                  OnClose(route, c1, outstanding_connect_incomming,
                          outstanding_connect_outgoing, s))

StepDisconnect ==
    /\ pc = "work"
    /\ \E route \in todo : \E D1 \in SUBSET UserStreams(channels[route]) :
         LET c1 == Shaken(channels[route], D1)
         IN  Turn(route, Op("Disconnect", route, 0, ""), c1, D1,
                  OnDisconnect(c1, outstanding_connect_incomming, outstanding_connect_outgoing))

StepProgressErr ==
    /\ pc = "work"
    /\ \E route \in todo : \E D1 \in SUBSET UserStreams(channels[route]) :
         LET c1 == Shaken(channels[route], D1)
         IN  Turn(route, Op("ProgressErr", route, 0, ""), c1, D1,
                  OnProgressErr(c1, outstanding_connect_incomming, outstanding_connect_outgoing))

\* `for killme in killme`: remove each listed channel, return at the first removed
RECURSIVE KillLoop(_, _)
KillLoop(km, chans) ==
    IF km = <<>> THEN [chans |-> chans, ret |-> NoEvent]
    ELSE IF Head(km) \in DOMAIN chans
    THEN [chans |-> Remove(chans, Head(km)),
          ret |-> IF DropPanics(chans[Head(km)].streams)
                  THEN [kind |-> "panic"]
                  ELSE [kind |-> "Disconnect", route |-> Head(km),
                        identity |-> chans[Head(km)].identity]]
    ELSE KillLoop(Tail(km), chans)

\* the end of a pass over all channels
PassEnd ==
    /\ pc = "work"
    /\ todo = {}
    /\ LET k == KillLoop(killme, channels)
       IN  /\ channels' = k.chans
           /\ IF k.ret.kind = "panic"
              THEN pc' = "aborted" /\ event' = NoEvent /\ todo' = {}
              ELSE IF k.ret.kind # "none"
              THEN pc' = "idle" /\ event' = k.ret /\ todo' = {}
              ELSE IF again
              THEN pc' = "work" /\ event' = NoEvent /\ todo' = DOMAIN channels
              ELSE pc' = "idle" /\ event' = [kind |-> "Again"] /\ todo' = {}
    /\ last' = Op("PassEnd", -1, 0, "")
    /\ again' = FALSE
    /\ progressed' = FALSE
    /\ ran' = {}
    /\ UNCHANGED <<boot, wire, sub, held>>
    /\ killme' = <<>>
    /\ sent' = {}
    /\ calls' = <<>>
    /\ closed' = EmptyMap
    /\ UNCHANGED <<broker_route, outstanding_connect_incomming,
                   outstanding_connect_outgoing, publish_secret, reported>>

Next ==
    \/ Open
    \/ Stream
    \/ Publish
    \/ Connect
    \/ Reject
    \/ AcceptIncomming
    \/ AcceptOutgoing
    \/ PollRecv
    \/ StepLater
    \/ StepSendPacket
    \/ StepReceiveHeader
    \/ StepReceiveStream
    \/ StepClose
    \/ StepDisconnect
    \/ StepProgressErr
    \/ StepShakePanic
    \/ PassEnd

Spec == Init /\ [][Next]_vars

\* ------------------------------------------------ the specifications checked
\* the connect protocols on the broker channel: the endpoint from construction,
\* a caller that publishes, connects and polls, and drops the events it is handed
NextConnect ==
    \/ Open
    \/ Stream
    \/ Publish
    \/ Connect
    \/ PollRecv
    \/ StepLater
    \/ StepSendPacket
    \/ StepReceiveHeader
    \/ StepReceiveStream
    \/ StepClose
    \/ StepDisconnect
    \/ StepProgressErr
    \/ StepShakePanic
    \/ PassEnd

SpecConnect == Init /\ [][NextConnect]_vars

\* answering connects: a poll on an endpoint whose caller has either published
\* or asked for a connect (the state Publish or Connect and the receive step of
\* a poll that read no datagram leave), engines that carry the connect streams
\* and close them, and a caller that answers the event the poll returns
InitAccept ==
    /\ broker_route = 0
    /\ \E con \in BOOLEAN, target \in Idents :
         /\ channels = (0 :> [UdpChannel(1, Established(MaxAddr, EmptyMap), FALSE)
                                EXCEPT !.used = {1},
                                       !.streams = IF con THEN EmptyMap ELSE (1 :> Handler("publish"))])
         /\ outstanding_connect_outgoing =
                IF con THEN (1 :> [stage |-> "WaitingForHeaders", identity |-> target])
                ELSE EmptyMap
         /\ publish_secret = ~con
         /\ con \/ target = 1
    /\ outstanding_connect_incomming = {}
    /\ pc = "work"
    /\ todo = {0}
    /\ again = FALSE
    /\ killme = <<>>
    /\ event = NoEvent
    /\ last = Op("recv", -1, 0, [kind |-> "WouldBlock"])
    /\ sent = {}
    /\ calls = <<>>
    /\ closed = EmptyMap
    /\ reported = {}
    /\ progressed = FALSE
    /\ boot = BootReturned
    /\ wire = NoWire
    /\ sub = NoSub
    /\ ran = {}
    /\ held = <<>>

NextAccept ==
    \/ Reject
    \/ AcceptIncomming
    \/ AcceptOutgoing
    \/ StepReceiveHeader
    \/ StepReceiveStream
    \/ StepClose
    \/ StepShakePanic
    \/ PassEnd

SpecAccept == InitAccept /\ [][NextAccept]_vars

\* a running endpoint with one peer channel: the state accept_outgoing leaves after
\* connect(identity) was answered by a ConnectResponse{ok, route, paths}
InitPeer ==
    /\ broker_route = 0
    /\ \E route \in Routes \ {0}, identity \in Idents, paths \in PathLists :
         LET broker == [UdpChannel(1, Established(MaxAddr, EmptyMap), FALSE) EXCEPT !.used = {1}]
             chans == (0 :> broker)
             cr == [ok |-> TRUE, route |-> route, paths |-> paths,
                    hs |-> [pkt |-> TRUE, id |-> identity, ts |-> 0, route |-> route]]
         IN  /\ channels = Put(chans, route,
                               UdpChannel(identity, Discovering(SeedPaths(paths, chans, 0)), TRUE))
             /\ last = Op("accept_outgoing", route, 0,
                          [res |-> "Ok", identity |-> identity, cr |-> Some(cr)])
    /\ outstanding_connect_incomming = {}
    /\ outstanding_connect_outgoing = EmptyMap
    /\ publish_secret = FALSE
    /\ pc = "idle"
    /\ todo = {}
    /\ again = FALSE
    /\ killme = <<>>
    /\ event = NoEvent
    /\ sent = {}
    /\ calls = <<>>
    /\ closed = EmptyMap
    /\ reported = {}
    /\ progressed = FALSE
    /\ boot = BootReturned
    /\ wire = NoWire
    /\ sub = NoSub
    /\ ran = {}
    /\ held = <<>>

NextPeer ==
    \/ PollRecv
    \/ StepLater
    \/ StepSendPacket
    \/ StepDisconnect
    \/ StepProgressErr
    \/ PassEnd

SpecPeer == InitPeer /\ [][NextPeer]_vars

\* streams of a peer channel: the endpoint of SpecPeer after the peer channel
\* settled on the fifth datagram of an unknown sender and poll returned pending;
\* the peer opens streams, sends frames on them and closes them
InitStreams ==
    /\ broker_route = 0
    /\ \E identity \in {MaxIdent} :
         channels =
            Put((0 :> [UdpChannel(1, Established(MaxAddr, EmptyMap), FALSE) EXCEPT !.used = {1}]),
                1, UdpChannel(identity,
                              Established(1, Put(Put(EmptyMap, MaxAddr,
                                                     [cat |-> BrokerOrigin, count |-> 0]),
                                                 1, [cat |-> Internet, count |-> SettleCount])),
                              TRUE))
    /\ outstanding_connect_incomming = {}
    /\ outstanding_connect_outgoing = EmptyMap
    /\ publish_secret = FALSE
    /\ pc = "idle"
    /\ todo = {}
    /\ again = FALSE
    /\ killme = <<>>
    /\ event = [kind |-> "Again"]
    /\ last = Op("PassEnd", -1, 0, "")
    /\ sent = {}
    /\ calls = <<>>
    /\ closed = EmptyMap
    /\ reported = {}
    /\ progressed = FALSE
    /\ boot = BootReturned
    /\ wire = NoWire
    /\ sub = NoSub
    /\ ran = {}
    /\ held = <<>>

NextStreams ==
    \/ PollRecv
    \/ StepLater
    \/ StepReceiveHeader
    \/ StepReceiveStream
    \/ StepClose
    \/ PassEnd

SpecStreams == InitStreams /\ [][NextStreams]_vars

\* the poll loop of the endpoint of SpecStreams with engines that may answer
\* progress() with any result, driven by a caller that polls again and again
NextLoop ==
    \/ PollRecv
    \/ StepLater
    \/ StepSendPacket
    \/ StepReceiveHeader
    \/ StepReceiveStream
    \/ StepClose
    \/ StepDisconnect
    \/ StepProgressErr
    \/ PassEnd

\* the loop runs on until it returns: no step of a poll is postponed for ever
SpecLoop == InitStreams /\ [][NextLoop]_vars /\ WF_vars(NextLoop)


\* ------------------------------------------------ EndpointBuilder::connect
\* the inner loop gives a record up when attempts exceeds this
MaxAttempts == 4
\* milliseconds that are doubled with every attempt
BackoffUnit == 200

\* Duration::from_millis(2u64.pow(attempts) * 200)
Backoff(attempts) == (2 ^ attempts) * BackoffUnit

\* the signed broker records the resolver returns, in the order the shuffle leaves
\* (a record is told apart by its address; two names may list the same broker)
RecordLists == UNION {[1..n -> Addrs] : n \in 0..MaxRecords}

\* a pop that leaves the record on the list
PopRecordKeep(records) ==
    [record |-> records[Len(records)], rest |-> records]

\* records.pop(): the last record and the list without it
PopRecord(records) ==
    [record |-> records[Len(records)], rest |-> SubSeq(records, 1, Len(records) - 1)]

\* what one sock.recv_from of the attempt loop meets: no datagram, a datagram that
\* EncryptedPacket::decode or noise.recv_response rejects, or a handshake response
\* (recv_response yields the broker's identity; into_transport then yields the
\* transport or fails)
RecvOutcomes == {"WouldBlock", "Invalid", "Valid"}

Reverse(q) == [i \in 1..Len(q) |-> q[Len(q) + 1 - i]]

\* the coroutine before its first step
InitBoot ==
    /\ boot = [phase |-> "resolve", all |-> <<>>, records |-> <<>>, tried |-> <<>>,
               record |-> 0, attempts |-> 0, waits |-> <<>>, abandoned |-> <<>>,
               result |-> "none"]
    /\ broker_route = 0
    /\ channels = EmptyMap
    /\ outstanding_connect_incomming = {}
    /\ outstanding_connect_outgoing = EmptyMap
    /\ publish_secret = FALSE
    /\ pc = "idle"
    /\ todo = {}
    /\ again = FALSE
    /\ killme = <<>>
    /\ event = NoEvent
    /\ last = Op("builder", -1, 0, "")
    /\ sent = {}
    /\ calls = <<>>
    /\ closed = EmptyMap
    /\ reported = {}
    /\ progressed = FALSE
    /\ wire = NoWire
    /\ sub = NoSub
    /\ ran = {}
    /\ held = <<>>

\* what a step of the bootstrap leaves alone
BootFrame ==
    UNCHANGED <<outstanding_connect_incomming, outstanding_connect_outgoing, publish_secret,
                pc, todo, again, killme, event, sent, calls, closed, reported, progressed, wire,
                sub, ran, held>>

\* osaka_dns::resolve, filter_map(from_signed_txt) and shuffle
BootResolve ==
    /\ boot.phase = "resolve"
    /\ \E ok \in BOOLEAN :
         IF ok
         THEN \E recs \in RecordLists :
                /\ boot' = [boot EXCEPT !.phase = "pop", !.all = recs, !.records = recs]
                /\ last' = Op("resolve", -1, 0, recs)
         ELSE /\ boot' = [boot EXCEPT !.phase = "failed", !.result = "Dns"]
              /\ last' = Op("resolve", -1, 0, "Err")
    /\ UNCHANGED <<channels, broker_route>>
    /\ BootFrame

\* the head of the outer loop: pop a record, initiate the handshake, bind a
\* socket and register it (the unwrap of a failed register panics)
BootPop ==
    /\ boot.phase = "pop"
    /\ IF boot.records = <<>>
       THEN /\ boot' = [boot EXCEPT !.phase = "failed", !.result = "OutOfOptions"]
            /\ last' = Op("pop", -1, 0, "None")
       ELSE LET p == PopRecord(boot.records)
            IN  \E setup \in {"Ok", "InitiateErr", "BindErr", "RegisterErr"} :
                  /\ boot' = IF setup = "Ok"
                             THEN [boot EXCEPT !.phase = "attempt", !.records = p.rest,
                                               !.tried = Append(@, p.record),
                                               !.record = p.record, !.attempts = 0,
                                               !.waits = <<>>]
                             ELSE IF setup = "RegisterErr"
                             THEN [boot EXCEPT !.phase = "panicked", !.records = p.rest,
                                               !.tried = Append(@, p.record),
                                               !.record = p.record, !.attempts = 0,
                                               !.waits = <<>>, !.result = "panic"]
                             ELSE [boot EXCEPT !.phase = "failed", !.records = p.rest,
                                               !.tried = Append(@, p.record),
                                               !.record = p.record,
                                               !.result = IF setup = "BindErr" THEN "Io" ELSE "Noise"]
                  /\ last' = Op("pop", -1, 0, setup)
    /\ UNCHANGED <<channels, broker_route>>
    /\ BootFrame

\* one iteration of the attempt loop, up to its break, continue, return or yield
BootAttempt ==
    /\ boot.phase = "attempt"
    /\ LET n == boot.attempts + 1
       IN  IF n > MaxAttempts
           THEN /\ boot' = [boot EXCEPT !.phase = "pop", !.attempts = n,
                                        !.abandoned = Append(@, [record |-> boot.record,
                                                                 waits |-> boot.waits])]
                /\ last' = Op("attempt", -1, 0, [n |-> n, rx |-> "none", tx |-> "none"])
                /\ UNCHANGED <<channels, broker_route>>
           ELSE \E rx \in RecvOutcomes :
                  CASE rx = "Valid" ->
                         \E transport \in BOOLEAN :
                           IF transport
                           THEN \E identity \in Idents, route \in Routes :
                                  /\ boot' = [boot EXCEPT !.phase = "returned", !.attempts = n,
                                                          !.result = "Ok"]
                                  /\ broker_route' = route
                                  /\ channels' = (route :> UdpChannel(identity,
                                                      Established(boot.record, EmptyMap), FALSE))
                                  /\ last' = Op("attempt", route, 0,
                                                [n |-> n, rx |-> rx, tx |-> "none"])
                           ELSE /\ boot' = [boot EXCEPT !.phase = "failed", !.attempts = n,
                                                        !.result = "Noise"]
                                /\ last' = Op("attempt", -1, 0,
                                              [n |-> n, rx |-> rx, tx |-> "none"])
                                /\ UNCHANGED <<channels, broker_route>>
                    [] rx = "Invalid" ->
                         /\ boot' = [boot EXCEPT !.attempts = n]
                         /\ last' = Op("attempt", -1, 0, [n |-> n, rx |-> rx, tx |-> "none"])
                         /\ UNCHANGED <<channels, broker_route>>
                    [] rx = "WouldBlock" ->
                         \E tx \in {"Ok", "Err"} :
                           /\ boot' = IF tx = "Ok"
                                      THEN [boot EXCEPT !.attempts = n,
                                                        !.waits = Append(@, Backoff(n))]
                                      ELSE [boot EXCEPT !.phase = "failed", !.attempts = n,
                                                        !.result = "Io"]
                           /\ last' = Op("attempt", -1, 0, [n |-> n, rx |-> rx, tx |-> tx])
                           /\ UNCHANGED <<channels, broker_route>>
    /\ BootFrame

NextBoot ==
    \/ BootResolve
    \/ BootPop
    \/ BootAttempt

\* the executor resumes the coroutine whenever it can take a step
SpecBoot == InitBoot /\ [][NextBoot]_vars /\ WF_vars(NextBoot)


\* ------------------------------------------------------ packet.rs: codecs
\* a byte string is a sequence of 0..255
Prefix(bytes, n) == SubSeq(bytes, 1, n)
Drop(bytes, n) == SubSeq(bytes, n + 1, Len(bytes))
Prefixes(bytes) == {Prefix(bytes, n) : n \in 0..Len(bytes)}

\* write_uN::<BigEndian>: the n bytes of v, most significant first
RECURSIVE BE(_, _)
BE(v, n) == IF n = 0 THEN <<>> ELSE Append(BE(v \div 256, n - 1), v % 256)

\* read_uN::<BigEndian>: the value of a byte string
RECURSIVE FromBE(_)
FromBE(bytes) ==
    IF bytes = <<>> THEN 0
    ELSE FromBE(Prefix(bytes, Len(bytes) - 1)) * 256 + bytes[Len(bytes)]

\* a version test that does not look at the reserved bytes
VersionOkLax(version, reserved) == version = 8

\* the test of line 38, negated: version 0x08 and reserved FF FF FF
VersionOk(version, reserved) == version = 8 /\ reserved = <<255, 255, 255>>

\* EncryptedPacket
EncryptedPacket(version, route, direction, counter, payload) ==
    [version |-> version, route |-> route, direction |-> direction,
     counter |-> counter, payload |-> payload]

\* EncryptedPacket::decode
EncryptedPacketDecode(inbuf) ==
    IF Len(inbuf) < 20 THEN [ok |-> FALSE, err |-> "Io"]
    ELSE LET version == inbuf[1]
             reserved == SubSeq(inbuf, 2, 4)
             route == SubSeq(inbuf, 5, 12)
             direction == IF route[8] % 2 = 0 THEN "Initiator2Responder"
                          ELSE "Responder2Initiator"
             masked == [route EXCEPT ![8] = @ - (@ % 2)]
             counter == FromBE(SubSeq(inbuf, 13, 20))
         IN  IF ~VersionOk(version, reserved)
             THEN [ok |-> FALSE, err |-> "InvalidVersion", version |-> version]
             ELSE [ok |-> TRUE,
                   pkt |-> EncryptedPacket(version, FromBE(masked), direction, counter,
                                           Drop(inbuf, 20))]

\* a direction bit that is set for Responder2Initiator and otherwise left as it is
DirectionBitSetOnly(byte, direction) ==
    IF direction = "Initiator2Responder" THEN byte ELSE byte - (byte % 2) + 1

\* route[7] &= 0b11111110 or route[7] |= 0b00000001
DirectionBit(byte, direction) ==
    IF direction = "Initiator2Responder" THEN byte - (byte % 2) ELSE byte - (byte % 2) + 1

\* an encoder that writes the counter before the route
EncryptedPacketEncodeSwapped(x) ==
    <<x.version, 255, 255, 255>> \o BE(x.counter, 8)
        \o [BE(x.route, 8) EXCEPT ![8] = DirectionBit(@, x.direction)] \o x.payload

\* EncryptedPacket::encode
EncryptedPacketEncode(x) ==
    <<x.version, 255, 255, 255>>
        \o [BE(x.route, 8) EXCEPT ![8] = DirectionBit(@, x.direction)]
        \o BE(x.counter, 8) \o x.payload

\* payloads of up to MaxPayload bytes
Payloads == UNION {[1..n -> {0, 240}] : n \in 0..MaxPayload}

\* packets handed to encode
Packets ==
    {EncryptedPacket(v, r, d, c, pl) :
        v \in {8, 9}, r \in {0, 1, 2, 259, 65536}, c \in {0, 1, 4660},
        d \in {"Initiator2Responder", "Responder2Initiator"}, pl \in Payloads}

\* datagrams handed to decode: headers with a right or wrong version, right or
\* wrong reserved bytes, either direction bit, with or without payload, cut at
\* every length
RawPackets ==
    UNION {Prefixes(<<v>> \o res \o <<0, 0, 0, 0, 0, 0, 1, rl>>
                        \o <<0, 0, 0, 0, 0, 0, 2, cl>> \o pl) :
              v \in {0, 8, 9},
              res \in {<<255, 255, 255>>, <<255, 255, 0>>, <<0, 0, 0>>, <<8, 8, 8>>},
              rl \in {0, 1, 2, 255}, cl \in {0, 1, 255}, pl \in {<<>>, <<240, 13>>}}

\* a function about to be applied to in; src is the value in was encoded from
Applying(fn, src, in) == [fn |-> fn, src |-> src, in |-> in, out |-> None]

\* every variable of the endpoint and of the bootstrap at rest
AtRest ==
    /\ boot = BootReturned
    /\ broker_route = 0
    /\ channels = EmptyMap
    /\ outstanding_connect_incomming = {}
    /\ outstanding_connect_outgoing = EmptyMap
    /\ publish_secret = FALSE
    /\ pc = "idle"
    /\ todo = {}
    /\ again = FALSE
    /\ killme = <<>>
    /\ event = NoEvent
    /\ last = Op("none", -1, 0, "")
    /\ sent = {}
    /\ calls = <<>>
    /\ closed = EmptyMap
    /\ reported = {}
    /\ progressed = FALSE
    /\ ran = {}
    /\ held = <<>>

WireFrame ==
    UNCHANGED <<channels, broker_route, outstanding_connect_incomming,
                outstanding_connect_outgoing, publish_secret, pc, todo, again, killme,
                event, last, sent, calls, closed, reported, progressed, boot, sub, ran, held>>

InitPacket ==
    /\ wire \in {Applying("EncryptedPacket::decode", None, b) : b \in RawPackets}
                \cup {Applying("EncryptedPacket::encode", None, x) : x \in Packets}
    /\ AtRest
    /\ sub = NoSub

\* encode a packet and hand the bytes to decode
ApplyPacketEncode ==
    /\ wire.fn = "EncryptedPacket::encode"
    /\ wire' = Applying("EncryptedPacket::decode", Some(wire.in), EncryptedPacketEncode(wire.in))
    /\ WireFrame

ApplyPacketDecode ==
    /\ wire.fn = "EncryptedPacket::decode"
    /\ wire.out = None
    /\ wire' = [wire EXCEPT !.out = Some(EncryptedPacketDecode(wire.in))]
    /\ WireFrame

NextPacket ==
    \/ ApplyPacketEncode
    \/ ApplyPacketDecode

SpecPacket == InitPacket /\ [][NextPacket]_vars


\* ----------------------------------------------------- packet.rs: Frame
HeaderFrame(stream, payload) == [t |-> "Header", stream |-> stream, payload |-> payload]
StreamFrame(stream, order, payload) ==
    [t |-> "Stream", stream |-> stream, order |-> order, payload |-> payload]
AckFrame(delay, acked) == [t |-> "Ack", delay |-> delay, acked |-> acked]
PingFrame == [t |-> "Ping"]
DisconnectFrame == [t |-> "Disconnect"]
CloseFrame(stream, order) == [t |-> "Close", stream |-> stream, order |-> order]
ConfigFrame(timeout, sleeping) == [t |-> "Config", timeout |-> timeout, sleeping |-> sleeping]

\* the asserts of encode: payload.len() + 12 < u16::MAX, acked.len() < u16::MAX / 8
Encodable(f) ==
    CASE f.t \in {"Header", "Stream"} -> Len(f.payload) + 12 < 65535
      [] f.t = "Ack" -> Len(f.acked) < 65535 \div 8
      [] OTHER -> TRUE

\* flags with the two bits exchanged
ConfigFlagsSwapped(timeout, sleeping) ==
    (IF timeout # None THEN 64 ELSE 0) + (IF sleeping THEN 128 ELSE 0)

\* flags |= 0b10000000 for a timeout, flags |= 0b01000000 for sleeping
ConfigFlags(timeout, sleeping) ==
    (IF timeout # None THEN 128 ELSE 0) + (IF sleeping THEN 64 ELSE 0)

RECURSIVE Flatten(_)
Flatten(byteseqs) ==
    IF byteseqs = <<>> THEN <<>> ELSE Head(byteseqs) \o Flatten(Tail(byteseqs))

\* Frame::encode
FrameEncode(f) ==
    CASE f.t = "Header" ->
           <<4>> \o BE(f.stream, 4) \o BE(Len(f.payload) % 65536, 2) \o f.payload
      [] f.t = "Stream" ->
           <<5>> \o BE(f.stream, 4) \o BE(f.order, 8) \o BE(Len(f.payload) % 65536, 2)
                 \o f.payload
      [] f.t = "Ack" ->
           LET acked == SortSeq(f.acked, LAMBDA a, b : a < b)
           IN  <<1>> \o BE(f.delay % 65536, 2) \o BE(Len(f.acked) % 65536, 2)
                     \o Flatten([i \in 1..Len(acked) |-> BE(acked[i], 8)])
      [] f.t = "Ping" -> <<2>>
      [] f.t = "Disconnect" -> <<3>>
      [] f.t = "Close" -> <<6>> \o BE(f.stream, 4) \o BE(f.order, 8)
      [] f.t = "Config" ->
           <<7, ConfigFlags(f.timeout, f.sleeping)>>
               \o BE(IF f.timeout # None THEN 2 ELSE 0, 2)
               \o (IF f.timeout # None THEN BE(Unwrap(f.timeout), 2) ELSE <<>>)

\* a decoder for which no tag is padding
IsPaddingNever(typ) == FALSE

\* Ok(0x00) => ()
IsPadding(typ) == typ = 0

IoError == [ok |-> FALSE, err |-> "Io"]

\* the loop of Frame::decode on the bytes r left to read, with the frames f
\* decoded so far
RECURSIVE FrameDecodeLoop(_, _)
FrameDecodeLoop(r, f) ==
    IF r = <<>> THEN [ok |-> TRUE, frames |-> f]
    ELSE LET typ == r[1]
             b == Tail(r)
         IN  CASE IsPadding(typ) -> FrameDecodeLoop(b, f)
               [] ~IsPadding(typ) /\ typ = 1 ->
                    IF Len(b) < 4 THEN IoError
                    ELSE LET delay == FromBE(SubSeq(b, 1, 2))
                             count == FromBE(SubSeq(b, 3, 4))
                         IN  IF Len(b) < 4 + 8 * count THEN IoError
                             ELSE FrameDecodeLoop(Drop(b, 4 + 8 * count),
                                     Append(f, AckFrame(delay,
                                        [i \in 1..count |->
                                            FromBE(SubSeq(b, 8 * i - 3, 8 * i + 4))])))
               [] ~IsPadding(typ) /\ typ = 2 -> FrameDecodeLoop(b, Append(f, PingFrame))
               [] ~IsPadding(typ) /\ typ = 3 -> FrameDecodeLoop(b, Append(f, DisconnectFrame))
               [] ~IsPadding(typ) /\ typ = 4 ->
                    IF Len(b) < 6 THEN IoError
                    ELSE LET stream == FromBE(SubSeq(b, 1, 4))
                             len == FromBE(SubSeq(b, 5, 6))
                         IN  IF Len(b) < 6 + len THEN IoError
                             ELSE FrameDecodeLoop(Drop(b, 6 + len),
                                     Append(f, HeaderFrame(stream, SubSeq(b, 7, 6 + len))))
               [] ~IsPadding(typ) /\ typ = 5 ->
                    IF Len(b) < 14 THEN IoError
                    ELSE LET stream == FromBE(SubSeq(b, 1, 4))
                             order == FromBE(SubSeq(b, 5, 12))
                             len == FromBE(SubSeq(b, 13, 14))
                         IN  IF Len(b) < 14 + len THEN IoError
                             ELSE FrameDecodeLoop(Drop(b, 14 + len),
                                     Append(f, StreamFrame(stream, order,
                                                           SubSeq(b, 15, 14 + len))))
               [] ~IsPadding(typ) /\ typ = 6 ->
                    IF Len(b) < 12 THEN IoError
                    ELSE FrameDecodeLoop(Drop(b, 12),
                            Append(f, CloseFrame(FromBE(SubSeq(b, 1, 4)),
                                                 FromBE(SubSeq(b, 5, 12)))))
               [] ~IsPadding(typ) /\ typ = 7 ->
                    IF Len(b) < 3 THEN IoError
                    ELSE LET flags == b[1]
                             datalen == FromBE(SubSeq(b, 2, 3))
                             data == SubSeq(b, 4, 3 + datalen)
                         IN  IF Len(b) < 3 + datalen THEN IoError
                             ELSE IF flags >= 128 /\ datalen < 2 THEN IoError
                             ELSE FrameDecodeLoop(Drop(b, 3 + datalen),
                                     Append(f, ConfigFrame(
                                        IF flags >= 128 THEN Some(FromBE(SubSeq(data, 1, 2)))
                                        ELSE None,
                                        (flags \div 64) % 2 = 1)))
               [] OTHER -> [ok |-> FALSE, err |-> "InvalidFrameType", typ |-> typ]

\* Frame::decode
FrameDecode(r) == FrameDecodeLoop(r, <<>>)

\* acked lists of up to MaxAcked sequence numbers, in any order
AckLists == UNION {[1..n -> {1, 2162}] : n \in 0..MaxAcked}

\* frames handed to encode
Frames ==
    {HeaderFrame(st, pl) : st \in {0, 99}, pl \in Payloads}
    \cup {StreamFrame(99, o, pl) : o \in {0, 4643}, pl \in Payloads}
    \cup {AckFrame(d, a) : d \in {0, 1, 65535, 65536, 70000}, a \in AckLists}
    \cup {PingFrame, DisconnectFrame}
    \cup {CloseFrame(st, o) : st \in {0, 99}, o \in {0, 4643}}
    \cup {ConfigFrame(t, sl) : t \in {None, Some(0), Some(1292)}, sl \in BOOLEAN}

\* what a datagram's plaintext is put together from: padding, a tag that is no
\* frame type, or the encoding of a frame
Pieces ==
    {[kind |-> "pad"]} \cup {[kind |-> "bad", typ |-> typ] : typ \in {8, 255}}
    \cup {[kind |-> "frame", f |-> f] :
             f \in {PingFrame, DisconnectFrame, CloseFrame(99, 4643),
                    HeaderFrame(99, <<240>>), StreamFrame(99, 4643, <<240, 0>>),
                    AckFrame(5, <<4643, 4644>>), ConfigFrame(None, FALSE),
                    ConfigFrame(Some(1292), TRUE)}}

PieceBytes(p) ==
    CASE p.kind = "pad" -> <<0>>
      [] p.kind = "bad" -> <<p.typ>>
      [] p.kind = "frame" -> FrameEncode(p.f)

\* sequences of up to max pieces
PieceLists(max) == UNION {[1..n -> Pieces] : n \in 0..max}

PlaintextBytes(pieces) == Flatten([i \in 1..Len(pieces) |-> PieceBytes(pieces[i])])

\* plaintexts handed to decode: up to max pieces, cut at every length
Plaintexts(max) ==
    UNION {{[pieces |-> ps, cut |-> n] : n \in 0..Len(PlaintextBytes(ps))} :
              ps \in PieceLists(max)}

InitFrame ==
    /\ wire \in {Applying("Frame::encode", None, f) : f \in Frames}
                \cup {Applying("Frame::decode", Some(pt),
                               Prefix(PlaintextBytes(pt.pieces), pt.cut)) :
                         pt \in Plaintexts(MaxPieces)}
    /\ AtRest
    /\ sub = NoSub

\* encode a frame and hand the bytes written to decode
ApplyFrameEncode ==
    /\ wire.fn = "Frame::encode"
    /\ Encodable(wire.in)
    /\ wire' = Applying("Frame::decode", Some(wire.in), FrameEncode(wire.in))
    /\ WireFrame

ApplyFrameDecode ==
    /\ wire.fn = "Frame::decode"
    /\ wire.out = None
    /\ wire' = [wire EXCEPT !.out = Some(FrameDecode(wire.in))]
    /\ WireFrame

NextFrame ==
    \/ ApplyFrameEncode
    \/ ApplyFrameDecode

SpecFrame == InitFrame /\ [][NextFrame]_vars


\* ------------------------------------------- Stream::message, small_message
\* b.chunks(600)
ChunkSize == 600

\* a chunk that is one byte short of the chunk size
ChunkLenShort(remaining, size) == IF remaining < size THEN remaining ELSE size - 1

\* the length of the next chunk of slice::chunks
ChunkLen(remaining, size) == IF remaining < size THEN remaining ELSE size

\* slice::chunks(size): the chunks of b in order
RECURSIVE Chunks(_, _)
Chunks(b, size) ==
    IF b = <<>> THEN <<>>
    ELSE <<Prefix(b, ChunkLen(Len(b), size))>> \o Chunks(Drop(b, ChunkLen(Len(b), size)), size)

\* proto::ProtoHeader{len}.encode(&mut bh): the encoded envelope, told apart by
\* the length it carries
ProtoHeader(len) == [proto |-> "ProtoHeader", len |-> len]

\* Stream::message on the serialized body b: the arguments of its sends in order
Message(b) == <<ProtoHeader(Len(b))>> \o Chunks(b, ChunkSize)

\* Stream::small_message on the serialized body b
SmallMessage(b) == <<b>>

\* serialized bodies of every length up to max chunks and one byte
Bodies(max) == {[i \in 1..n |-> i % 256] : n \in 0..(max * ChunkSize + 1)}

InitMessage ==
    /\ wire \in {Applying(fn, None, b) : fn \in {"Stream::message", "Stream::small_message"},
                                         b \in Bodies(MaxChunks)}
    /\ AtRest
    /\ sub = NoSub

ApplyMessage ==
    /\ wire.fn = "Stream::message"
    /\ wire.out = None
    /\ wire' = [wire EXCEPT !.out = Some(Message(wire.in))]
    /\ WireFrame

ApplySmallMessage ==
    /\ wire.fn = "Stream::small_message"
    /\ wire.out = None
    /\ wire' = [wire EXCEPT !.out = Some(SmallMessage(wire.in))]
    /\ WireFrame

NextMessage ==
    \/ ApplyMessage
    \/ ApplySmallMessage

SpecMessage == InitMessage /\ [][NextMessage]_vars


\* the endpoint of SpecStreams with a caller that may also publish: stream
\* handlers, the stream factory and the closure of open all run
NextBorrow ==
    \/ Open
    \/ Publish
    \/ PollRecv
    \/ StepLater
    \/ StepReceiveHeader
    \/ StepReceiveStream
    \/ StepClose
    \/ StepShakePanic
    \/ PassEnd

SpecBorrow == InitStreams /\ [][NextBorrow]_vars

\* ------------------------------------------------------ SubscriberBuilder
\* frames the broker sends on the subscribe stream while the model watches
MaxSubFrames == 3

\* a frame on the subscribe stream by what the decoders make of it: hdr is
\* whether Headers::decode accepts it, chg is "undecodable" when
\* SubscribeChange::decode fails and the variant of m.m otherwise, id is the
\* identity a Publish or Unpublish carries (0: Identity::from_bytes fails)
SubFrames ==
    [hdr : BOOLEAN, chg : {"undecodable", "Supersede", "None"}, id : {0}]
    \cup [hdr : BOOLEAN, chg : {"Publish", "Unpublish"}, id : {0} \cup Idents]

\* the match on m.m: the callback log after the change m
SubCallback(h, m) ==
    IF m.chg = "Publish" /\ h.on_publish /\ m.id # 0
    THEN Append(h.log, [cb |-> "on_publish", id |-> m.id])
    ELSE IF m.chg = "Unpublish" /\ h.on_unpublish /\ m.id # 0
    THEN Append(h.log, [cb |-> "on_unpublish", id |-> m.id])
    ELSE h.log

\* SubscriberBuilder::handler resumed: it runs until osaka::sync!(stream)
\* finds the inbox empty, it returns, or it panics
SubResume(h) ==
    IF h.inbox = None
    THEN [h EXCEPT !.phase = IF @ = "created" THEN "headers" ELSE @]
    ELSE LET m == Unwrap(h.inbox)
             h1 == [h EXCEPT !.inbox = None]
         IN  IF h.phase \in {"created", "headers"}
             THEN IF m.hdr THEN [h1 EXCEPT !.phase = "changes"]
                  ELSE [h1 EXCEPT !.phase = "panic"]
             ELSE IF m.chg \in {"undecodable", "Supersede"}
             THEN [h1 EXCEPT !.phase = "done"]
             ELSE [h1 EXCEPT !.log = SubCallback(h, m)]

\* the shake and the poke of Endpoint::poll for the subscribe stream: the
\* handler is polled while it is registered; when it is Done the stream is
\* unregistered and closed
SubPolled(h) ==
    IF ~h.registered \/ h.phase = "panic" THEN h
    ELSE LET r == SubResume(h)
         IN  IF r.phase = "done"
             THEN [r EXCEPT !.registered = FALSE, !.closes = @ + 1]
             ELSE r

\* the ReceiveStream arm for the subscribe stream: driver.a.set(Done(frame)) if
\* the handler is registered, a warning otherwise
SubDeliver(h, f) ==
    IF h.registered /\ h.phase # "panic" THEN [h EXCEPT !.inbox = Some(f)] ELSE h

\* SubscriberBuilder::subscribe after ep.open: the request is sent and the
\* handler is registered for the subscribe stream, not yet polled
InitSubscriber ==
    /\ AtRest
    /\ wire = NoWire
    /\ \E p, u \in BOOLEAN :
         sub = [phase |-> "created", inbox |-> None, on_publish |-> p, on_unpublish |-> u,
                log |-> <<>>, registered |-> TRUE, closes |-> 0, arrived |-> 0]

\* what a turn of the subscribe stream's channel leaves alone
SubFrame(op, h) ==
    /\ sub' = h
    /\ last' = op
    /\ pc' = IF h.phase = "panic" THEN "aborted" ELSE pc
    /\ ran' = IF sub.registered THEN RanFrom(<<"handler">>, FALSE) ELSE {}
    /\ UNCHANGED <<channels, broker_route, outstanding_connect_incomming,
                   outstanding_connect_outgoing, publish_secret, todo, again, killme,
                   event, sent, calls, closed, reported, progressed, boot, wire, held>>

\* a turn in which the engine has nothing for the subscribe stream
SubIdle ==
    /\ pc = "idle"
    /\ SubFrame(Op("Later", broker_route, 1, ""), SubPolled(SubPolled(sub)))

\* a turn in which the engine hands over the next frame of the subscribe stream
SubReceiveStream ==
    /\ pc = "idle"
    /\ sub.arrived < MaxSubFrames
    /\ \E f \in SubFrames :
         SubFrame(Op("ReceiveStream", broker_route, 1, f),
                  [SubPolled(SubDeliver(SubPolled(sub), f)) EXCEPT !.arrived = @ + 1])

\* a turn in which the engine reports the subscribe stream closed by the broker
SubClose ==
    /\ pc = "idle"
    /\ sub.registered
    /\ SubFrame(Op("Close", broker_route, 1, ""), [SubPolled(sub) EXCEPT !.registered = FALSE])

NextSubscriber ==
    \/ SubIdle
    \/ SubReceiveStream
    \/ SubClose

SpecSubscriber == InitSubscriber /\ [][NextSubscriber]_vars

\* ------------------------------------------------------------------ claims
\* the step is the receive part of a poll that met a datagram for channel r
RecvStepOn(r) ==
    /\ last'.op = "recv"
    /\ last'.info.kind = "Packet"
    /\ last'.info.route = r

\* the step handles the progress result `op` of the broker channel for stream s
BrokerStep(op, s) ==
    /\ last'.op = op
    /\ last'.route = broker_route
    /\ last'.stream = s

\* C1: on a broker stream recorded by connect(target), the first ReceiveStream
\* only moves the stream to WaitingForResponse and returns no event; the second
\* makes poll return OutgoingConnect with cr = Some, requester = Some and the
\* target identity, closes the stream and removes it from the outgoing map.
C1_OutgoingConnect ==
    [][\A s \in DOMAIN outstanding_connect_outgoing :
         BrokerStep("ReceiveStream", s)
         => LET cr == outstanding_connect_outgoing[s]
            IN  IF cr.stage = "WaitingForHeaders"
                THEN /\ pc' = "work"
                     /\ event' = NoEvent
                     /\ s \in DOMAIN outstanding_connect_outgoing'
                     /\ outstanding_connect_outgoing'[s] =
                            [stage |-> "WaitingForResponse", identity |-> cr.identity]
                ELSE /\ pc' = "idle"
                     /\ event'.kind = "OutgoingConnect"
                     /\ event'.q.identity = cr.identity
                     /\ event'.q.cr # None
                     /\ event'.q.requester
                     /\ calls' = <<Call("close", s, "")>>
                     /\ s \notin DOMAIN outstanding_connect_outgoing']_vars

\* C2: whenever the broker channel's engine answers progress() with Close of an
\* outgoing-pending stream, in either stage, poll returns OutgoingConnect with
\* cr = None and requester = None and the target identity, and removes the
\* stream from the outgoing map. (A turn whose shake panics never calls
\* progress(): it is the step StepShakePanic, not a Close step.)
C2_CloseFailsConnect ==
    [][\A s \in DOMAIN outstanding_connect_outgoing :
         BrokerStep("Close", s)
         => /\ pc' = "idle"
            /\ event' = [kind |-> "OutgoingConnect",
                         q |-> [identity |-> outstanding_connect_outgoing[s].identity,
                                cr |-> None, requester |-> FALSE]]
            /\ s \notin DOMAIN outstanding_connect_outgoing']_vars

\* poll has just returned the failure of a connect whose stream was closed, on
\* a broker channel that carries the publish handler
C2_Witness ==
    /\ last.op = "Close"
    /\ last.route = broker_route
    /\ pc = "idle"
    /\ \E p \in DOMAIN channels[broker_route].streams :
          Armed(channels[broker_route].streams[p])
    /\ event.kind = "OutgoingConnect"
    /\ event.q.cr = None
    /\ ~event.q.requester
    /\ last.stream \notin DOMAIN outstanding_connect_outgoing

\* C3: a Discovering channel becomes Established in exactly the poll in which
\* the receive count of the datagram's sender reaches 5, and in every state
\* every count of a Discovering channel's candidate map is at most 4.
C3_SettleThreshold ==
    /\ [](\A r \in DOMAIN channels :
            channels[r].addrs.mode = "Discovering"
            => \A a \in DOMAIN channels[r].addrs.map : channels[r].addrs.map[a].count <= 4)
    /\ [][\A r \in DOMAIN channels \cap DOMAIN channels' :
            channels[r].addrs.mode = "Discovering"
            => (channels'[r].addrs.mode = "Established"
                <=> /\ RecvStepOn(r)
                    /\ last'.info.addr \in DOMAIN channels[r].addrs.map
                    /\ channels[r].addrs.map[last'.info.addr].count = 4)]_vars

\* a channel settled on the fifth datagram of the sender of the last datagram
C3_Witness ==
    /\ last.op = "recv"
    /\ last.info.kind = "Packet"
    /\ last.info.route \in DOMAIN channels
    /\ last.info.route # broker_route
    /\ channels[last.info.route].addrs.mode = "Established"
    /\ channels[last.info.route].addrs.map[last.info.addr].count = 5

\* C4: at the end of the receive step in which a channel settles, the chosen
\* address has a count of at least 1 and no candidate with a count of at least 1
\* has a strictly lower category than the chosen one.
C4_SettleChoice ==
    [][\A r \in DOMAIN channels \cap DOMAIN channels' :
         (channels[r].addrs.mode = "Discovering" /\ channels'[r].addrs.mode = "Established")
         => LET map == channels'[r].addrs.map
                c == channels'[r].addrs.chosen
            IN  /\ c \in DOMAIN map
                /\ map[c].count >= 1
                /\ \A a \in DOMAIN map : map[a].count >= 1 => map[a].cat >= map[c].cat]_vars

\* a settled channel that had two senders of different categories to choose from
\* and a candidate that never sent, and whose chosen address is not the sender of
\* the fifth datagram
C4_Witness ==
    \E r \in DOMAIN channels \ {broker_route} :
       LET ad == channels[r].addrs
       IN  /\ ad.mode = "Established"
           /\ last.op = "recv"
           /\ last.info.kind = "Packet"
           /\ last.info.route = r
           /\ last.info.addr \in DOMAIN ad.map
           /\ ad.map[last.info.addr].count = 5
           /\ ad.chosen # last.info.addr
           /\ ad.map[ad.chosen].count = 1
           /\ ad.map[ad.chosen].cat < ad.map[last.info.addr].cat

\* C5: when the engine of an Established channel accepts a datagram from an
\* address other than chosen, chosen becomes that address if and only if the
\* category recorded for chosen is >= the category recorded for the sender
\* (Internet when absent); chosen never moves to a strictly higher category.
C5_Migration ==
    [][\A r \in DOMAIN channels \cap DOMAIN channels' :
         channels[r].addrs.mode = "Established"
         => LET ad == channels[r].addrs
                cat(a) == IF a \in DOMAIN ad.map THEN ad.map[a].cat ELSE Internet
                new == channels'[r].addrs.chosen
            IN  /\ (RecvStepOn(r) /\ last'.info.recv = "Ok" /\ last'.info.addr # ad.chosen)
                   => /\ (new = last'.info.addr <=> cat(ad.chosen) >= cat(last'.info.addr))
                      /\ new \in {ad.chosen, last'.info.addr}
                /\ new # ad.chosen => cat(new) <= cat(ad.chosen)]_vars

\* a peer channel that settled on B, recorded as Internet (the one address
\* that was counted while it was Discovering), has moved to A, a known Local
\* candidate that was never counted, on a datagram from A its engine accepted
C5_Witness ==
    \E r \in DOMAIN channels \ {broker_route} :
       LET ad == channels[r].addrs
       IN  /\ ad.mode = "Established"
           /\ last.op = "recv"
           /\ last.info.kind = "Packet"
           /\ last.info.route = r
           /\ last.info.recv = "Ok"
           /\ ad.chosen = last.info.addr
           /\ ad.chosen \in DOMAIN ad.map
           /\ ad.map[ad.chosen].cat = Local
           /\ ad.map[ad.chosen].count = 0
           /\ \E b \in DOMAIN ad.map :
                 /\ ad.map[b].cat = Internet /\ ad.map[b].count = SettleCount
                 /\ \A c \in DOMAIN ad.map \ {b} : ad.map[c].count = 0

\* C6: a SendPacket of a channel goes to every address of the candidate map and
\* to no other while the channel is Discovering, and to the chosen address alone
\* while it is Established.
C6_OutboundRouting ==
    last.op = "SendPacket"
    => /\ last.route \in DOMAIN channels
       /\ LET ad == channels[last.route].addrs
          IN  /\ ad.mode = "Discovering" => sent = DOMAIN ad.map
              /\ ad.mode = "Established" => sent = {ad.chosen}

\* a SendPacket of an Established peer channel whose map holds a candidate other
\* than chosen
C6_Witness ==
    /\ last.op = "SendPacket"
    /\ last.route # broker_route
    /\ channels[last.route].addrs.mode = "Established"
    /\ Cardinality(DOMAIN channels[last.route].addrs.map) = 2
    /\ sent = {channels[last.route].addrs.chosen}

\* C7: a PeerConnectRequest on an incoming-pending stream whose identity or
\* timestamp differs from the handshake's yields no IncommingConnect; a
\* PeerConnectResponse{ok: false} is sent on the stream, the stream is closed,
\* and poll neither returns an error nor aborts.
C7_SecurityViolation ==
    [][\A s \in outstanding_connect_incomming :
         (BrokerStep("ReceiveStream", s) /\ last'.info.kind = "pcr" /\ last'.info.mismatch)
         => /\ event'.kind \notin {"IncommingConnect", "Err"}
            /\ pc' # "aborted"
            /\ calls' = <<Call("stream", s, "PeerConnectResponse{ok:false}"),
                          Call("close", s, "")>>]_vars

\* C8: a Stream frame on an incoming-pending broker stream takes the stream out
\* of the set, and poll either returns IncommingConnect for it or sends
\* PeerConnectResponse{ok: false} on it and closes it, published or not.
C8_IncomingAnswered ==
    [][\A s \in outstanding_connect_incomming :
         BrokerStep("ReceiveStream", s)
         => /\ s \notin outstanding_connect_incomming'
            /\ \/ /\ pc' = "idle"
                  /\ event'.kind = "IncommingConnect"
                  /\ event'.q.qstream = s
               \/ calls' = <<Call("stream", s, "PeerConnectResponse{ok:false}"),
                             Call("close", s, "")>>]_vars

\* C9: whenever the broker channel's engine answers progress() with a
\* ReceiveHeader, a :path /peer/connect adds the stream to the incoming set and
\* sends Headers::ok on it; another or no :path sends a 404 header and leaves
\* the set unchanged; neither registers a stream handler. (A turn whose shake
\* panics never calls progress(): it is the step StepShakePanic.)
C9_HeaderDispatch ==
    [][\A s \in StreamIds :
         (BrokerStep("ReceiveHeader", s) /\ last'.info # "garbage")
         => /\ IF last'.info = "peer_connect"
               THEN /\ outstanding_connect_incomming' = outstanding_connect_incomming \cup {s}
                    /\ calls' = <<Call("stream", s, "Headers::ok")>>
               ELSE /\ outstanding_connect_incomming' = outstanding_connect_incomming
                    /\ calls' = <<Call("stream", s, "Headers::404")>>
            /\ s \notin DOMAIN channels'[broker_route].streams
            /\ DOMAIN channels'[broker_route].streams
                   \subseteq DOMAIN channels[broker_route].streams]_vars

\* the broker channel, carrying the publish handler, has just answered a
\* /peer/connect header block
C9_Witness ==
    /\ last.op = "ReceiveHeader"
    /\ last.route = broker_route
    /\ \E p \in DOMAIN channels[broker_route].streams :
          Armed(channels[broker_route].streams[p])
    /\ last.info = "peer_connect"
    /\ last.stream \in outstanding_connect_incomming
    /\ calls = <<Call("stream", last.stream, "Headers::ok")>>

\* C10: when poll returns, every channel whose engine reported Disconnect during
\* it has left the channel map, and the event returned is the Disconnect of one
\* of them.
C10_DisconnectRemoves ==
    (pc = "idle" /\ reported # {})
    => /\ \A r \in reported : r \notin DOMAIN channels
       /\ event.kind = "Disconnect"
       /\ event.route \in reported

\* C11: no content of an inbound datagram or frame makes poll return an Err or
\* abort: after the receive step of a datagram that was read, and after a
\* ReceiveHeader or ReceiveStream step, poll has neither aborted nor returned Err.
C11_Availability ==
    /\ (last.op = "recv" /\ last.info.kind # "IoError")
       => (pc # "aborted" /\ event.kind # "Err")
    /\ last.op \in {"ReceiveHeader", "ReceiveStream"}
       => (pc # "aborted" /\ event.kind # "Err")

\* C12: every channel accept_outgoing adds has the identity given to connect(),
\* equal to the identity the handshake response yields, under the route of the
\* completed transport, equal to the response's route; when the handshake has
\* completed into a transport and the identities or the routes differ,
\* accept_outgoing aborts and adds no channel.
C12_NoMismatchedChannel ==
    [][last'.op = "accept_outgoing"
       => LET i == last'.info
          IN  /\ channels' # channels
                 => /\ i.cr # None
                    /\ i.identity = event.q.identity
                    /\ Unwrap(i.cr).hs.pkt
                    /\ i.transport
                    /\ Unwrap(i.cr).hs.id = i.identity
                    /\ Unwrap(i.cr).hs.route = Unwrap(i.cr).route
                    /\ Unwrap(i.cr).route \in DOMAIN channels'
                    /\ channels'[Unwrap(i.cr).route].identity = i.identity
                    /\ \A r \in DOMAIN channels' \ {Unwrap(i.cr).route} :
                          r \in DOMAIN channels /\ channels'[r] = channels[r]
              /\ (/\ event.q.cr # None
                  /\ event.q.requester
                  /\ Unwrap(i.cr).ok
                  /\ Unwrap(i.cr).hs.pkt
                  /\ i.transport
                  /\ \/ Unwrap(i.cr).hs.id # event.q.identity
                     \/ Unwrap(i.cr).hs.route # Unwrap(i.cr).route)
                 => (pc' = "aborted" /\ channels' = channels)]_vars

\* accept_outgoing has added a channel for the identity asked for
C12_Witness ==
    /\ last.op = "accept_outgoing"
    /\ last.info.res = "Ok"
    /\ pc = "idle"
    /\ last.route \in DOMAIN channels
    /\ channels[last.route].identity = last.info.identity
    /\ Unwrap(last.info.cr).hs.id = last.info.identity

\* C13: called with an event whose cr or requester is None, or whose cr.ok is
\* false, accept_outgoing returns OutgoingConnectFailed with the target
\* identity and leaves the channel map and both pending-connect sets unchanged.
C13_FailureIsValue ==
    [][(/\ last'.op = "accept_outgoing"
        /\ \/ event.q.cr = None
           \/ ~event.q.requester
           \/ ~Unwrap(last'.info.cr).ok)
       => /\ pc' = "idle"
          /\ last'.info.res = "OutgoingConnectFailed"
          /\ last'.info.identity = event.q.identity
          /\ (last'.info.cr = None <=> event.q.cr = None)
          /\ channels' = channels
          /\ outstanding_connect_incomming' = outstanding_connect_incomming
          /\ outstanding_connect_outgoing' = outstanding_connect_outgoing]_vars

\* accept_outgoing has returned the failure of a connect the broker refused
C13_Witness ==
    /\ last.op = "accept_outgoing"
    /\ last.info.res = "OutgoingConnectFailed"
    /\ last.info.cr # None
    /\ ~Unwrap(last.info.cr).ok
    /\ DOMAIN channels = {broker_route}

\* C14: accept_incomming adds exactly one channel, keyed by the request's
\* route, and sends PeerConnectResponse{ok: true} on the request's broker
\* stream; reject sends PeerConnectResponse{ok: false} on that stream and
\* leaves the channel map unchanged.
C14_AnswerIncoming ==
    [][/\ last'.op = "accept_incomming"
          => /\ pc' = "idle"
             /\ last'.route \notin DOMAIN channels
             /\ DOMAIN channels' = DOMAIN channels \cup {last'.route}
             /\ \A r \in DOMAIN channels : channels'[r] = channels[r]
             /\ calls' = <<Call("stream", event.q.qstream, "PeerConnectResponse{ok:true}")>>
       /\ last'.op = "reject"
          => /\ pc' = "idle"
             /\ channels' = channels
             /\ calls' = <<Call("stream", event.q.qstream, "PeerConnectResponse{ok:false}")>>]_vars

\* C15 as stated: a channel created by accept_incomming or accept_outgoing is
\* Discovering, its map holds every relayed path under its declared category
\* and the broker channel's address under BrokerOrigin, and every count is 0.
C15_SeedingAsStated ==
    [][(/\ last'.op \in {"accept_incomming", "accept_outgoing"}
        /\ channels' # channels)
       => LET paths == IF last'.op = "accept_incomming" THEN last'.info.paths
                       ELSE Unwrap(last'.info.cr).paths
              ad == channels'[last'.route].addrs
              baddr == channels[broker_route].addrs.chosen
          IN  /\ ad.mode = "Discovering"
              /\ \A n \in DOMAIN paths :
                    /\ paths[n].addr \in DOMAIN ad.map
                    /\ ad.map[paths[n].addr].cat = paths[n].cat
              /\ baddr \in DOMAIN ad.map
              /\ ad.map[baddr].cat = BrokerOrigin
              /\ \A a \in DOMAIN ad.map : ad.map[a].count = 0]_vars

\* C15, amended: the map's addresses are those of the relayed paths and the
\* broker channel's address; the broker channel's address is under
\* BrokerOrigin, every other address under the category of the last relayed
\* path that names it; every count is 0.
C15_Seeding ==
    [][(/\ last'.op \in {"accept_incomming", "accept_outgoing"}
        /\ channels' # channels)
       => LET paths == IF last'.op = "accept_incomming" THEN last'.info.paths
                       ELSE Unwrap(last'.info.cr).paths
              ad == channels'[last'.route].addrs
              baddr == channels[broker_route].addrs.chosen
          IN  /\ ad.mode = "Discovering"
              /\ DOMAIN ad.map = {paths[n].addr : n \in DOMAIN paths} \cup {baddr}
              /\ ad.map[baddr].cat = BrokerOrigin
              /\ \A n \in DOMAIN paths :
                    (/\ paths[n].addr # baddr
                     /\ \A k \in DOMAIN paths : k > n => paths[k].addr # paths[n].addr)
                    => ad.map[paths[n].addr].cat = paths[n].cat
              /\ \A a \in DOMAIN ad.map : ad.map[a].count = 0]_vars

\* accept_incomming has created a channel from two relayed paths that name one
\* address, not the broker channel's, first as Local and then as Internet: the
\* map holds the address as Internet
C15_Witness ==
    /\ last.op = "accept_incomming"
    /\ last.route # broker_route
    /\ last.route \in DOMAIN channels
    /\ Len(last.info.paths) = 2
    /\ last.info.paths[1].addr = last.info.paths[2].addr
    /\ last.info.paths[1].addr # channels[broker_route].addrs.chosen
    /\ last.info.paths[1].cat = Local
    /\ last.info.paths[2].cat = Internet
    /\ channels[last.route].addrs.mode = "Discovering"
    /\ channels[last.route].addrs.map[last.info.paths[1].addr] = [cat |-> Internet, count |-> 0]

\* C16: a datagram that decodes and carries the route of a Discovering channel
\* adds exactly 1 to the count of its sender (an unknown sender enters under
\* Internet with count 1), whether or not the engine accepts the datagram, and
\* changes the count and category of no other address.
C16_DiscoveryCounting ==
    [][\A r \in DOMAIN channels :
         (RecvStepOn(r) /\ channels[r].addrs.mode = "Discovering")
         => LET old == channels[r].addrs.map
                new == channels'[r].addrs.map
                addr == last'.info.addr
            IN  /\ DOMAIN new = DOMAIN old \cup {addr}
                /\ new[addr] = IF addr \in DOMAIN old
                               THEN [cat |-> old[addr].cat, count |-> old[addr].count + 1]
                               ELSE [cat |-> Internet, count |-> 1]
                /\ \A a \in DOMAIN old \ {addr} : new[a] = old[a]]_vars

\* a Discovering channel has counted the first datagram of an unknown sender
\* although the engine rejected the datagram
C16_Witness ==
    /\ last.op = "recv"
    /\ last.info.kind = "Packet"
    /\ last.info.recv = "Error"
    /\ last.info.route \in DOMAIN channels
    /\ channels[last.info.route].addrs.mode = "Discovering"
    /\ channels[last.info.route].addrs.map[last.info.addr] = [cat |-> Internet, count |-> 1]

\* C17: the receive step of a datagram that fails outer decoding, or whose
\* route matches no channel, leaves the channel map and both pending-connect
\* sets unchanged.
C17_DroppedDatagram ==
    [][(/\ last'.op = "recv"
        /\ \/ last'.info.kind = "Undecodable"
           \/ last'.info.kind = "Packet" /\ last'.info.route \notin DOMAIN channels)
       => /\ channels' = channels
          /\ outstanding_connect_incomming' = outstanding_connect_incomming
          /\ outstanding_connect_outgoing' = outstanding_connect_outgoing
          /\ pc' = "work"]_vars

\* the receive step has dropped a datagram for a route whose channel is gone
\* while the broker channel is still there
C17_Witness ==
    /\ last.op = "recv"
    /\ last.info.kind = "Packet"
    /\ last.info.route \notin DOMAIN channels
    /\ broker_route \in DOMAIN channels
    /\ pc = "work"

\* C18: in every turn of a channel, each handler whose poll returned Done is
\* removed from the channel's handler map and closed with exactly one close
\* call; a handler that returned Again stays registered (unless the peer closed
\* its stream in that turn) and no close is called for it.
C18_CloseOnDone ==
    [][last'.op \in {"Later", "SendPacket", "ReceiveHeader", "ReceiveStream", "Close",
                     "Disconnect", "ProgressErr"}
       => LET old == channels[last'.route].streams
              new == channels'[last'.route].streams
          IN  /\ \A s \in DOMAIN closed' :
                    /\ closed'[s] = 1
                    /\ s \notin DOMAIN new
                    /\ s \in DOMAIN old \/ (last'.op = "ReceiveHeader" /\ last'.stream = s)
              /\ \A s \in DOMAIN old \ DOMAIN closed' :
                    s \in DOMAIN new \/ (last'.op = "Close" /\ last'.stream = s)
              /\ \A s \in DOMAIN new :
                    \A n \in DOMAIN calls' : calls'[n] # Call("close", s, "")]_vars

\* in one turn a handler answered Done and was closed once while another
\* handler of the channel answered Again and stays registered
C18_Witness ==
    /\ last.op = "Later"
    /\ \E s \in DOMAIN closed, t \in DOMAIN channels[last.route].streams :
          /\ closed[s] = 1
          /\ s \notin DOMAIN channels[last.route].streams
          /\ channels[last.route].streams[t].task = "user"

\* C19: on a ReceiveHeader of a channel other than the broker's the factory is
\* called once; the handler it returns is registered under the stream id
\* (and removed again only by completing at once); when it returns none,
\* close(stream) is called and no handler is registered for the stream.
C19_PeerOpenedStream ==
    [][(/\ last'.op = "ReceiveHeader"
        /\ last'.route # broker_route
        /\ last'.info # "garbage")
       => LET s == last'.stream
              new == channels'[last'.route].streams
          IN  \/ /\ calls' = <<Call("factory", s, "Some")>>
                 /\ \/ s \in DOMAIN new /\ s \notin DOMAIN closed'
                    \/ s \notin DOMAIN new /\ s \in DOMAIN closed'
              \/ /\ calls' = <<Call("factory", s, "None"), Call("close", s, "")>>
                 /\ s \notin DOMAIN new
                 /\ s \notin DOMAIN closed']_vars

\* the factory of a peer channel returned no handler and the stream was closed
C19_Witness ==
    /\ last.op = "ReceiveHeader"
    /\ last.route # broker_route
    /\ calls = <<Call("factory", last.stream, "None"), Call("close", last.stream, "")>>
    /\ last.stream \notin DOMAIN channels[last.route].streams

\* C20: for every registered handler that takes the inbox content whenever it
\* is polled, the payloads it has read are the payloads the engine produced for
\* its stream, in order, none lost or repeated, and its inbox is empty whenever
\* a turn of its channel has ended.
C20_InOrderDelivery ==
    \A r \in DOMAIN channels : \A s \in UserStreams(channels[r]) :
       LET h == channels[r].streams[s]
       IN  /\ h.inbox = None
           /\ h.seen = [n \in 1..h.got |-> n]

\* a handler has read two payloads, and the second one arrived in this turn
C20_Witness ==
    /\ last.op = "ReceiveStream"
    /\ last.info.kind = "data"
    /\ last.stream \in DOMAIN channels[last.route].streams
    /\ channels[last.route].streams[last.stream].seen = <<1, 2>>

\* C21: a record that is given up was sent the handshake four times, with waits
\* of 400, 800, 1600 and 3200 ms after the sends
C21_Backoff ==
    \A i \in 1..Len(boot.abandoned) :
       boot.abandoned[i].waits = <<400, 800, 1600, 3200>>

\* the bootstrap ended in an error of the resolver, the handshake initiation
\* or the socket
BootError ==
    \/ last.op = "resolve" /\ boot.result = "Dns"
    \/ last.op = "pop" /\ boot.result \in {"Io", "Noise"}
    \/ last.op = "attempt" /\ boot.result = "Io"

\* the bootstrap ended with the error of into_transport after a valid response
TransportError ==
    last.op = "attempt" /\ last.info.rx = "Valid" /\ boot.result = "Noise"

\* C22 as stated: the bootstrap pops every resolved record at most once and
\* terminates; it fails with OutOfOptions whenever, without an error of the
\* socket or the handshake initiation and without a valid response, every
\* record was tried in vain, and every valid handshake response makes it
\* return an endpoint whose broker channel is Established at the address of
\* the record in hand
C22_TerminationAsStated ==
    /\ [](boot.phase # "resolve" => boot.tried \o Reverse(boot.records) = Reverse(boot.all))
    /\ [](boot.phase = "failed" /\ ~BootError /\ ~TransportError
            => /\ boot.result = "OutOfOptions"
               /\ boot.records = <<>>
               /\ boot.tried = Reverse(boot.all)
               /\ Len(boot.abandoned) = Len(boot.all))
    /\ [](boot.phase = "returned"
            => /\ last.op = "attempt" /\ last.info.rx = "Valid"
               /\ DOMAIN channels = {broker_route}
               /\ channels[broker_route].addrs = Established(boot.record, EmptyMap)
               /\ boot.record = boot.tried[Len(boot.tried)])
    /\ [][last'.op = "attempt" /\ last'.info.rx = "Valid" => boot'.phase = "returned"]_vars
    /\ <>(boot.phase \in {"returned", "failed", "panicked"})

\* C22: the bootstrap pops every resolved record at most once and terminates;
\* it fails with OutOfOptions exactly when, without an error, every record was
\* tried in vain; a valid handshake response ends it at once: with an endpoint
\* whose broker channel is Established at the address of the record in hand,
\* or, when into_transport fails, with that error, no endpoint and no further
\* record tried; a socket that cannot be registered aborts it
C22_Termination ==
    /\ [](boot.phase # "resolve" => boot.tried \o Reverse(boot.records) = Reverse(boot.all))
    /\ [](boot.phase = "failed" /\ ~BootError /\ ~TransportError
            => /\ boot.result = "OutOfOptions"
               /\ boot.records = <<>>
               /\ boot.tried = Reverse(boot.all)
               /\ Len(boot.abandoned) = Len(boot.all))
    /\ [](boot.phase = "returned"
            => /\ last.op = "attempt" /\ last.info.rx = "Valid"
               /\ DOMAIN channels = {broker_route}
               /\ channels[broker_route].addrs = Established(boot.record, EmptyMap)
               /\ boot.record = boot.tried[Len(boot.tried)])
    /\ [][last'.op = "attempt" /\ last'.info.rx = "Valid"
            => \/ boot'.phase = "returned"
               \/ /\ boot'.phase = "failed" /\ boot'.result = "Noise"
                  /\ channels' = channels
                  /\ boot'.records = boot.records /\ boot'.tried = boot.tried]_vars
    /\ [](boot.phase = "panicked" => last.op = "pop" /\ last.info = "RegisterErr")
    /\ [][boot.phase \in {"returned", "failed", "panicked"} => boot' = boot]_vars
    /\ <>(boot.phase \in {"returned", "failed", "panicked"})

\* the second record answered after the first was given up
C22_Witness ==
    /\ boot.phase = "returned"
    /\ Len(boot.tried) = 2
    /\ Len(boot.abandoned) = 1

\* the result of the decode that was applied to wire.in
Decoded == Unwrap(wire.out)

\* C23: decode fails on every input shorter than the 20-byte header, fails with
\* InvalidVersion on a complete header whose version is not 0x08 or whose
\* reserved bytes are not FF FF FF, and otherwise yields the counter of bytes
\* 12..20 and the bytes from offset 20 as payload
C23_PacketValidation ==
    wire.fn = "EncryptedPacket::decode" /\ wire.out # None =>
       LET b == wire.in
       IN  IF Len(b) < 20 THEN ~Decoded.ok
           ELSE IF b[1] # 8 \/ <<b[2], b[3], b[4]>> # <<255, 255, 255>>
           THEN ~Decoded.ok /\ Decoded.err = "InvalidVersion" /\ Decoded.version = b[1]
           ELSE /\ Decoded.ok
                /\ BE(Decoded.pkt.counter, 8) = SubSeq(b, 13, 20)
                /\ Decoded.pkt.payload = [i \in 1..(Len(b) - 20) |-> b[20 + i]]

\* a complete valid header with an empty payload was decoded
C23_Witness ==
    /\ wire.fn = "EncryptedPacket::decode" /\ wire.src = None /\ wire.out # None
    /\ Len(wire.in) = 20
    /\ Decoded.ok /\ Decoded.pkt.payload = <<>> /\ Decoded.pkt.counter = 767

\* C24: the low bit of the wire route is the direction, whatever the low bit of
\* the route, and decoding recovers the direction and the route with its low
\* bit cleared
C24_DirectionBit ==
    wire.fn = "EncryptedPacket::decode" /\ wire.src # None =>
       LET x == Unwrap(wire.src)
       IN  /\ wire.in[12] % 2 = (IF x.direction = "Responder2Initiator" THEN 1 ELSE 0)
           /\ wire.out # None /\ x.version = 8 =>
                 /\ Decoded.ok
                 /\ Decoded.pkt.direction = x.direction
                 /\ Decoded.pkt.route = x.route - (x.route % 2)

\* an odd route sent Initiator2Responder was encoded and decoded
C24_Witness ==
    /\ wire.fn = "EncryptedPacket::decode" /\ wire.src # None /\ wire.out # None
    /\ Unwrap(wire.src).route = 259
    /\ Unwrap(wire.src).direction = "Initiator2Responder"
    /\ Decoded.ok /\ Decoded.pkt.route = 258

\* C25 as stated: every packet, of any version and route, decodes from its
\* encoding to an equal packet
C25_RoundTripAsStated ==
    wire.fn = "EncryptedPacket::decode" /\ wire.src # None /\ wire.out # None =>
       Decoded.ok /\ Decoded.pkt = Unwrap(wire.src)

\* C25: every packet of version 0x08 whose route has a clear low bit decodes
\* from its encoding to an equal packet
C25_RoundTrip ==
    wire.fn = "EncryptedPacket::decode" /\ wire.src # None /\ wire.out # None
        /\ Unwrap(wire.src).version = 8 /\ Unwrap(wire.src).route % 2 = 0 =>
       Decoded.ok /\ Decoded.pkt = Unwrap(wire.src)

\* a packet with route, counter and payload went through encode and decode
C25_Witness ==
    /\ wire.fn = "EncryptedPacket::decode" /\ wire.src # None /\ wire.out # None
    /\ Unwrap(wire.src) = EncryptedPacket(8, 65536, "Responder2Initiator", 4660, <<240, 0>>)
    /\ Decoded.ok

\* the frame that was encoded, when the bytes decoded come from Frame::encode
FromFrame == wire.src # None /\ "t" \in DOMAIN Unwrap(wire.src)

\* C26 as stated: every frame of the seven variants, an Ack with any delay and
\* any acked list included, decodes from its encoding to the list of itself
C26_FrameRoundTripAsStated ==
    wire.fn = "Frame::decode" /\ FromFrame /\ wire.out # None =>
       Decoded = [ok |-> TRUE, frames |-> <<Unwrap(wire.src)>>]

\* the acked list is in ascending order
Ascending(acked) == \A i \in 1..(Len(acked) - 1) : acked[i] <= acked[i + 1]

\* C26: every frame decodes from its encoding to the list of itself, an Ack
\* provided its delay fits 16 bits and its acked list is in ascending order
C26_FrameRoundTrip ==
    wire.fn = "Frame::decode" /\ FromFrame /\ wire.out # None
        /\ (Unwrap(wire.src).t = "Ack" =>
               Unwrap(wire.src).delay < 65536 /\ Ascending(Unwrap(wire.src).acked)) =>
       Decoded = [ok |-> TRUE, frames |-> <<Unwrap(wire.src)>>]

\* an Ack with the largest delay and two acked numbers went through both
C26_Witness ==
    /\ wire.fn = "Frame::decode" /\ wire.out # None
    /\ wire.src = Some(AckFrame(65535, <<1, 2162>>))
    /\ Decoded.ok

\* what the decoder has to answer for pieces cut after n bytes, given the frames
\* met so far
RECURSIVE Expected(_, _, _)
Expected(pieces, n, frames) ==
    IF pieces = <<>> \/ n = 0 THEN [ok |-> TRUE, frames |-> frames]
    ELSE LET p == Head(pieces)
         IN  CASE p.kind = "pad" -> Expected(Tail(pieces), n - 1, frames)
               [] p.kind = "bad" -> [ok |-> FALSE, err |-> "InvalidFrameType", typ |-> p.typ]
               [] p.kind = "frame" ->
                    IF n >= Len(PieceBytes(p))
                    THEN Expected(Tail(pieces), n - Len(PieceBytes(p)), Append(frames, p.f))
                    ELSE [ok |-> FALSE, err |-> "Io"]

\* C27: padding bytes yield no frame, an input that ends between frames yields
\* the frames before in wire order, the first tag outside 0x00..0x07 yields
\* InvalidFrameType with that tag, and an input that ends inside a frame yields
\* an error and no list
C27_FrameGrammar ==
    wire.fn = "Frame::decode" /\ wire.src # None /\ ~FromFrame /\ wire.out # None =>
       LET pt == Unwrap(wire.src)
           want == Expected(pt.pieces, pt.cut, <<>>)
       IN  IF want.ok \/ want.err = "InvalidFrameType" THEN Decoded = want
           ELSE ~Decoded.ok

\* a frame, a padding byte and the first bytes of a second frame were decoded
C27_Witness ==
    /\ wire.fn = "Frame::decode" /\ wire.src # None /\ ~FromFrame /\ wire.out # None
    /\ Unwrap(wire.src).pieces = <<[kind |-> "frame", f |-> PingFrame],
                                   [kind |-> "frame", f |-> CloseFrame(99, 4643)]>>
    /\ Unwrap(wire.src).cut = 5
    /\ ~Decoded.ok

\* C28: message(m) sends the envelope with the body length and then the body in
\* chunks of 600 bytes, the last one shorter when the length is no multiple of
\* 600, 1 + ceil(L/600) sends in all; small_message(m) sends the body once
C28_MessageFraming ==
    wire.out # None =>
       LET b == wire.in
           L == Len(b)
           sends == Unwrap(wire.out)
       IN  /\ wire.fn = "Stream::message" =>
               /\ Len(sends) = 1 + ((L + 599) \div 600)
               /\ sends[1] = ProtoHeader(L)
               /\ \A i \in 2..Len(sends) :
                     /\ Len(sends[i]) <= 600
                     /\ Len(sends[i]) >= 1
                     /\ i < Len(sends) => Len(sends[i]) = 600
                     /\ sends[i] = [j \in 1..Len(sends[i]) |-> b[600 * (i - 2) + j]]
               /\ L = 600 * (Len(sends) - 2) + (IF L = 0 THEN 600 ELSE Len(sends[Len(sends)]))
           /\ wire.fn = "Stream::small_message" => sends = <<b>>

\* a body of two full chunks and one byte was sent as an envelope and three chunks
C28_Witness ==
    /\ wire.fn = "Stream::message" /\ wire.out # None
    /\ Len(wire.in) = 1201
    /\ Len(Unwrap(wire.out)) = 4
    /\ Len(Unwrap(wire.out)[4]) = 1

\* C29: the chosen address of an Established channel changes only to an address
\* that is a key of the channel's map of prior candidates
C29_KnownCandidate ==
    [][\A r \in DOMAIN channels \cap DOMAIN channels' :
         (/\ channels[r].addrs.mode = "Established"
          /\ channels'[r].addrs.chosen # channels[r].addrs.chosen)
         => channels'[r].addrs.chosen \in DOMAIN channels[r].addrs.map]_vars

\* from here on the engines answer Later: every state inside a poll was reached
\* by the receive step, by a Later turn or by the end of a pass
OnlyLater == pc = "work" => last.op \in {"recv", "Later", "PassEnd"}

\* C30: poll returns pending only at the end of a complete pass in which every
\* channel's progress result was Later, and once the engines answer nothing but
\* Later every poll invocation comes to an end
C30_FixedPoint ==
    /\ [][event'.kind = "Again" /\ last'.op = "PassEnd"
            => pc = "work" /\ todo = {} /\ ~progressed /\ pc' = "idle"]_vars
    /\ [](pc = "idle" /\ event.kind = "Again" => last.op = "PassEnd")
    /\ (<>[]OnlyLater => []<>(pc # "work"))

\* a poll over two channels, one of them with a stream handler registered by an
\* earlier ReceiveHeader, returned pending at the end of a pass
C30_Witness ==
    /\ pc = "idle"
    /\ event.kind = "Again"
    /\ last.op = "PassEnd"
    /\ Cardinality(DOMAIN channels) = 2
    /\ \E r \in DOMAIN channels : DOMAIN channels[r].streams # {}

\* C31: subscriber handler sequencing. In every turn that hands a frame of the
\* subscribe stream to a registered handler: the first frame is consumed as the
\* response headers and invokes no callback; a later frame invokes on_publish
\* (Publish) or on_unpublish (Unpublish) exactly when that callback is set and
\* the identity parses, once, appended after the earlier invocations; a
\* Supersede or an undecodable frame ends the handler, and the endpoint
\* unregisters the stream and closes it; the process goes on. Once the handler
\* has ended no callback is invoked again.
SubscriberCalls(h, f) ==
    IF f.chg = "Publish" /\ h.on_publish /\ f.id # 0
    THEN <<[cb |-> "on_publish", id |-> f.id]>>
    ELSE IF f.chg = "Unpublish" /\ h.on_unpublish /\ f.id # 0
    THEN <<[cb |-> "on_unpublish", id |-> f.id]>>
    ELSE <<>>

SubscriberEnded(h) == ~h.registered /\ h.phase = "done"

SubscriberStep ==
    LET f == last'.info
    IN  /\ pc' # "aborted"
        /\ IF sub.phase \in {"created", "headers"}
           THEN /\ sub'.log = sub.log
                /\ IF f.hdr THEN sub'.phase = "changes"
                   ELSE SubscriberEnded(sub') /\ sub'.closes = sub.closes + 1
           ELSE IF f.chg \in {"undecodable", "Supersede"}
           THEN /\ sub'.log = sub.log
                /\ SubscriberEnded(sub') /\ sub'.closes = sub.closes + 1
           ELSE /\ sub'.log = sub.log \o SubscriberCalls(sub, f)
                /\ sub'.phase = "changes" /\ sub'.registered

C31_HandlerSequencing ==
    [][/\ last'.op = "ReceiveStream" /\ sub.registered => SubscriberStep
       /\ ~sub.registered => sub'.log = sub.log /\ sub'.closes = sub.closes]_vars

\* C32: no re-entrant borrow of the channel engine. Whatever code of the
\* caller a step runs (a stream handler polled by the shake or the poke, the
\* stream factory, the closure given to open), no guard of a mutable borrow of
\* the engine is alive while it runs, so a Stream::send in that code finds the
\* engine free.
C32_NoReentrantBorrow == \A x \in ran : ~x.held

\* a poll has polled a handler and called the factory in one turn, and open has
\* run its closure
C32_Witness ==
    /\ {"handler", "factory"} \subseteq {x.code : x \in ran}
    /\ publish_secret

\* C33: at most one result per connect. An entry of the outgoing-pending map is
\* made only by connect, for a stream that has none; a poll that returns
\* Event::OutgoingConnect does so for a broker stream that has an entry, with
\* the identity of that entry, and removes the entry; so each connect leads to
\* at most one such event, and a Close or Stream frame on a stream without an
\* entry returns none.
ReturnsOutgoingConnect == pc = "work" /\ pc' = "idle" /\ event'.kind = "OutgoingConnect"

C33_OneResultPerConnect ==
    [][/\ ReturnsOutgoingConnect =>
             /\ last'.route = broker_route
             /\ last'.stream \in DOMAIN outstanding_connect_outgoing
             /\ event'.q.identity = outstanding_connect_outgoing[last'.stream].identity
             /\ outstanding_connect_outgoing'
                    = Remove(outstanding_connect_outgoing, last'.stream)
       /\ DOMAIN outstanding_connect_outgoing' \ DOMAIN outstanding_connect_outgoing # {} =>
             /\ last'.op = "connect"
             /\ DOMAIN outstanding_connect_outgoing'
                    = DOMAIN outstanding_connect_outgoing \cup {last'.stream}
             /\ \A s \in DOMAIN outstanding_connect_outgoing :
                    outstanding_connect_outgoing'[s] = outstanding_connect_outgoing[s]
       /\ pc = "work" /\ last'.op \in {"ReceiveStream", "Close"}
             /\ ~(last'.route = broker_route
                  /\ last'.stream \in DOMAIN outstanding_connect_outgoing) =>
             event'.kind # "OutgoingConnect"]_vars

\* two connects are pending; a poll has returned the response to one of them
\* and removed its entry, the other is still waiting
C33_Witness ==
    /\ pc = "idle"
    /\ event.kind = "OutgoingConnect" /\ event.q.cr # None
    /\ last.op = "ReceiveStream" /\ last.route = broker_route
    /\ last.stream \notin DOMAIN outstanding_connect_outgoing
    /\ outstanding_connect_outgoing # EmptyMap

\* C34: channels end only through Disconnect. A channel leaves the channel map,
\* removed or replaced by another channel under its route, only in a poll that
\* returns Event::Disconnect with the route and the identity of that channel;
\* accept_incomming and accept_outgoing put no channel in the place of a live
\* one.
Inserted(r) ==
    /\ last'.route = r
    /\ \/ last'.op = "accept_incomming"
       \/ last'.op = "accept_outgoing" /\ last'.info.res = "Ok"

C34_OnlyDisconnect ==
    [][\A r \in DOMAIN channels :
          r \notin DOMAIN channels' \/ Inserted(r) =>
             /\ pc' = "idle"
             /\ event' = [kind |-> "Disconnect", route |-> r,
                          identity |-> channels[r].identity]]_vars

\* C35: broker channel permanence. In every state after construction the broker
\* route is a key of the channel map, and no call of connect, publish, reject,
\* accept_incomming, stream or open on the broker route has aborted for lack of
\* the broker channel.
C35_BrokerPermanence ==
    /\ broker_route \in DOMAIN channels
    /\ ~(pc = "aborted" /\ last.op \in {"connect", "publish", "reject", "accept_incomming"})

\* C36: Established is absorbing. A channel that is Established stays
\* Established for as long as it is in the channel map, and its prior-candidate
\* map (addresses, categories, counts) stays what it was; only the chosen
\* address may change.
C36_EstablishedAbsorbing ==
    [][\A r \in DOMAIN channels \cap DOMAIN channels' :
          channels[r].addrs.mode = "Established" =>
             /\ channels'[r].addrs.mode = "Established"
             /\ channels'[r].addrs.map = channels[r].addrs.map]_vars

\* an accepted datagram has moved an Established peer channel to an address
\* that settling cannot have chosen (its count is 0)
C36_Witness ==
    \E r \in DOMAIN channels \ {broker_route} :
       LET ad == channels[r].addrs
       IN  /\ last.op = "recv" /\ last.info.kind = "Packet" /\ last.info.route = r
           /\ last.info.recv = "Ok"
           /\ ad.mode = "Established"
           /\ ad.chosen = last.info.addr
           /\ ad.chosen \in DOMAIN ad.map
           /\ ad.map[ad.chosen].count = 0

\* C37: the Established address is authenticated. A datagram the engine of a
\* peer channel rejects (AntiReplay or another error of recv) leaves the
\* channel's mode, its chosen address and the set of addresses outbound
\* datagrams are sent to as they were; so a channel becomes Established, and
\* its chosen address changes, only on datagrams the engine accepted.
C37_AuthenticatedAddress ==
    [][\A r \in (DOMAIN channels \cap DOMAIN channels') \ {broker_route} :
          RecvStepOn(r) /\ last'.info.recv # "Ok" =>
             /\ channels'[r].addrs.mode = channels[r].addrs.mode
             /\ channels'[r].addrs.chosen = channels[r].addrs.chosen
             /\ SendTargets(channels'[r].addrs) = SendTargets(channels[r].addrs)]_vars

====
